---- MODULE Spec2Model ----
(***************************************************************************)
(* The IRONY compiler and virtual machine of jeffshrager/csminicourse:     *)
(*   src/pathos/irony.py                 the full dialect (class           *)
(*                                       VirtualHardware, compile, execute)*)
(*   src/from_code_to_machine/preirony.py  the teaching variant (module-   *)
(*                                       level hardware state)             *)
(*   src/from_code_to_machine/pathos.py  the shell built on the teaching   *)
(*                                       variant (comp / exec commands)    *)
(*                                                                         *)
(* Text model.  A source line is the sequence of its whitespace-separated  *)
(* words, every operator character (+ - < = #) standing as a word of its   *)
(* own; the empty sequence is a blank line.  An assembly line is likewise  *)
(* the sequence str.split() yields for it, so that f"MOV {t} {v}" is       *)
(* <<"MOV">> \o t \o <<v>> where t is the word sequence of the text t.     *)
(* Python exceptions are carried in an exc field ("" when none): once set, *)
(* the rest of the call is skipped, as the raise does.                     *)
(***************************************************************************)
EXTENDS Integers, Sequences, FiniteSets, TLC

VARIABLES
    function_names, \* irony.py global: set of function names seen by parse
    counter,        \* irony.py global: temp counter
    vm,             \* the VirtualHardware instance in use (irony.py)
    t_function_names, \* preirony.py global function_names
    t_counter,      \* preirony.py global counter
    hw,             \* preirony.py module-level hardware state
    fs,             \* shell: the file system (files of the current directory)
    shell,          \* pathos.py Shell: the user registry and the user logged in
    caller,         \* the calling code: its position, inputs and results
    hist            \* history: what earlier calls returned, the CALLs pending

vars == <<function_names, counter, vm, t_function_names, t_counter, hw, fs,
          shell, caller, hist>>

---------------------------------------------------------------------------
(* Bounds of the model *)

MaxLit == 24      \* words "-MaxLit" .. "MaxLit" are read as integer literals
MaxTemp == 40     \* words "tmp0" .. "tmpMaxTemp" are read as temp names
MaxFibN == 11     \* fib sources "main = fib n" for n in 0..MaxFibN
MaxRuns == 3      \* calls of execute / run in a row
MaxCompiles == 3  \* calls of compile in a row

---------------------------------------------------------------------------
(* Words *)

TempName(n) == "tmp" \o ToString(n)

LitWords == [n \in (0 - MaxLit)..MaxLit |-> ToString(n)]
TempWords == [n \in 0..MaxTemp |-> TempName(n)]

\* str.isdigit() or ('-' + digits): the word is an integer literal
IsLiteral(w) == \E n \in DOMAIN LitWords : LitWords[n] = w
\* int(w)
LitValue(w) == CHOOSE n \in DOMAIN LitWords : LitWords[n] = w

Punct == {"+", "-", "<", "=", "#"}
\* the word matches \w+
IsWord(w) == w \notin Punct

Count(s, w) == Cardinality({i \in 1..Len(s) : s[i] = w})
FirstIndex(s, w) == CHOOSE i \in 1..Len(s) : s[i] = w /\ \A j \in 1..(i-1) : s[j] # w
Before(s, i) == SubSeq(s, 1, i - 1)
After(s, i) == SubSeq(s, i + 1, Len(s))
Last(s) == s[Len(s)]
Front(s) == SubSeq(s, 1, Len(s) - 1)

---------------------------------------------------------------------------
(* Parser: src/pathos/irony.py parse *)

\* Variant of KeepLine that drops blank lines only
KeepLine_comments(line) == Len(line) > 0

\* irony.py:17  blank lines and lines starting with # are dropped
KeepLine(line) == Len(line) > 0 /\ line[1] # "#"

RECURSIVE FilterLines(_)
FilterLines(lines) ==
    IF lines = <<>> THEN <<>>
    ELSE IF KeepLine(Head(lines)) THEN <<Head(lines)>> \o FilterLines(Tail(lines))
    ELSE FilterLines(Tail(lines))

\* ^def (\w+) (\w+)$
IsDefLine(l) == Len(l) = 3 /\ l[1] = "def" /\ IsWord(l[2]) /\ IsWord(l[3])
\* ^if (.+)$
IsIfLine(l) == Len(l) >= 2 /\ l[1] = "if"
\* ^for (\w+) from (.+) to (.+)$ ; the first (.+) is greedy: the last " to "
ForToIndexes(l) == {k \in 5..(Len(l) - 1) : l[k] = "to"}
IsForLine(l) == /\ Len(l) >= 6 /\ l[1] = "for" /\ IsWord(l[2]) /\ l[3] = "from"
                /\ ForToIndexes(l) # {}
ForToIndex(l) == CHOOSE k \in ForToIndexes(l) : \A j \in ForToIndexes(l) : j <= k
\* ^return (.+)$ and ^print (.+)$
IsReturnLine(l) == Len(l) >= 2 /\ l[1] = "return"
IsPrintLine(l) == Len(l) >= 2 /\ l[1] = "print"
\* ^(\w+)\s*=\s*(.+)$
IsAssignLine(l) == Len(l) >= 3 /\ IsWord(l[1]) /\ l[2] = "="
IsEndLine(l) == l = <<"end">>

\* The block a line opens (irony.py:23, 28, 32), its body still empty
DefNode(l) == [type |-> "def", name |-> l[2], arg |-> l[3], body |-> <<>>]
IfNode(l) == [type |-> "if", cond |-> Tail(l), body |-> <<>>]
ForNode(l) == [type |-> "for", var |-> l[2],
               from |-> SubSeq(l, 4, ForToIndex(l) - 1),
               to |-> After(l, ForToIndex(l)), body |-> <<>>]

\* Parser state.  Python's stack holds references to the open body lists,
\* stack[0] being ast itself; here stack holds the open nodes by value, the
\* root first, and a node is put into its parent's body when it is closed
\* (or at the end of input: an unclosed block is already part of its parent
\* in Python).  ast keeps the root's body once the root itself was popped.
ParseStart(fnames) ==
    [stack |-> <<[type |-> "root", body |-> <<>>]>>, ast |-> <<>>,
     function_names |-> fnames, exc |-> "", line |-> <<>>]

\* stack[-1].append(node)
AppendStmt(st, node) ==
    IF Len(st.stack) = 0 THEN [st EXCEPT !.exc = "IndexError"]
    ELSE [st EXCEPT !.stack[Len(st.stack)].body = Append(@, node)]

\* stack[-1].append(node); stack.append(node["body"])
OpenBlock(st, node) ==
    IF Len(st.stack) = 0 THEN [st EXCEPT !.exc = "IndexError"]
    ELSE [st EXCEPT !.stack = Append(@, node)]

\* stack.pop()
CloseBlock(st) ==
    IF Len(st.stack) = 0 THEN [st EXCEPT !.exc = "IndexError"]
    ELSE IF Len(st.stack) = 1
    THEN [st EXCEPT !.ast = st.stack[1].body, !.stack = <<>>]
    ELSE [st EXCEPT !.stack =
            Append(Front(Front(st.stack)),
                   [st.stack[Len(st.stack) - 1] EXCEPT !.body = Append(@, Last(st.stack))])]

\* Variant of ParseLine that skips a line matching no statement form and
\* goes on with the next one (error recovery)
ParseLine_recover(st, l) ==
    IF st.exc # "" THEN st
    ELSE IF IsDefLine(l)
    THEN OpenBlock([st EXCEPT !.function_names = @ \cup {l[2]}], DefNode(l))
    ELSE IF IsIfLine(l) THEN OpenBlock(st, IfNode(l))
    ELSE IF IsForLine(l) THEN OpenBlock(st, ForNode(l))
    ELSE IF IsReturnLine(l) THEN AppendStmt(st, [type |-> "return", expr |-> Tail(l)])
    ELSE IF IsPrintLine(l) THEN AppendStmt(st, [type |-> "print", expr |-> Tail(l)])
    ELSE IF IsAssignLine(l)
    THEN AppendStmt(st, [type |-> "assign", var |-> l[1], expr |-> Tail(Tail(l))])
    ELSE IF IsEndLine(l) THEN CloseBlock(st)
    ELSE st

\* irony.py:21-44  one iteration of the loop over the lines
ParseLine(st, l) ==
    IF st.exc # "" THEN st
    ELSE IF IsDefLine(l)
    THEN OpenBlock([st EXCEPT !.function_names = @ \cup {l[2]}], DefNode(l))
    ELSE IF IsIfLine(l) THEN OpenBlock(st, IfNode(l))
    ELSE IF IsForLine(l) THEN OpenBlock(st, ForNode(l))
    ELSE IF IsReturnLine(l) THEN AppendStmt(st, [type |-> "return", expr |-> Tail(l)])
    ELSE IF IsPrintLine(l) THEN AppendStmt(st, [type |-> "print", expr |-> Tail(l)])
    ELSE IF IsAssignLine(l)
    THEN AppendStmt(st, [type |-> "assign", var |-> l[1], expr |-> Tail(Tail(l))])
    ELSE IF IsEndLine(l) THEN CloseBlock(st)
    ELSE [st EXCEPT !.exc = "SyntaxError", !.line = l]

RECURSIVE ParseLines(_, _)
ParseLines(st, lines) ==
    IF lines = <<>> THEN st ELSE ParseLines(ParseLine(st, Head(lines)), Tail(lines))

\* The blocks still open at the end of input are part of the AST
RECURSIVE CloseAll(_)
CloseAll(st) ==
    IF Len(st.stack) = 0 \/ st.exc # "" THEN st ELSE CloseAll(CloseBlock(st))

\* parse(lines) with the global function_names as it stands at the call:
\* [ast, function_names, exc, line]
parse(lines, fnames) ==
    LET result(st) == [ast |-> st.ast, function_names |-> st.function_names,
                       exc |-> st.exc, line |-> st.line]
    IN result(CloseAll(ParseLines(ParseStart(fnames), FilterLines(lines))))

---------------------------------------------------------------------------
(* Code generator: src/pathos/irony.py temp, compile_expr, compile_stmt,   *)
(* compile_fn, compile_all.  The global counter is threaded through as cnt *)
(* and handed back in the result; function_names is only read here.        *)

\* irony.py:9-13  counter += 1; return f"tmp{counter}"
temp(cnt) == [name |-> TempName(cnt + 1), counter |-> cnt + 1]

\* str.split(sep) unpacked into exactly two names (irony.py:66, 73, 94)
SplitsInTwo(e, sep) == Count(e, sep) = 1

RECURSIVE compile_expr(_, _, _)

\* Variant of compile_expr that splits at an operator before it looks for a call
compile_expr_split_first(expr, cnt, fnames) ==
    IF \E op \in {"+", "-"} : Count(expr, op) > 0
    THEN LET op == IF Count(expr, "+") > 0 THEN "+" ELSE "-"
             opc == IF op = "+" THEN "ADD" ELSE "SUB"
         IN IF ~SplitsInTwo(expr, op)
            THEN [loc |-> <<>>, code |-> <<>>, counter |-> cnt, exc |-> "ValueError"]
            ELSE LET i == FirstIndex(expr, op)
                     a == compile_expr(Before(expr, i), cnt, fnames)
                     b == compile_expr(After(expr, i), a.counter, fnames)
                     t == temp(b.counter)
                 IN IF a.exc # "" THEN a
                    ELSE IF b.exc # "" THEN b
                    ELSE [loc |-> <<t.name>>,
                          code |-> a.code \o b.code \o
                                   << <<opc>> \o a.loc \o b.loc \o <<t.name>> >>,
                          counter |-> t.counter, exc |-> ""]
    ELSE IF Len(expr) >= 2 /\ expr[1] \in fnames
    THEN LET arg == compile_expr(Tail(expr), cnt, fnames)
             t == temp(arg.counter)
         IN IF arg.exc # "" THEN arg
            ELSE [loc |-> <<t.name>>,
                  code |-> arg.code \o << <<"PUSH">> \o arg.loc,
                                          <<"CALL", expr[1]>>,
                                          <<"MOV", "_retval", t.name>> >>,
                  counter |-> t.counter, exc |-> ""]
    ELSE [loc |-> expr, code |-> <<>>, counter |-> cnt, exc |-> ""]

\* Variant of compile_expr that looks for "-" before "+"
compile_expr_minus_first(expr, cnt, fnames) ==
    IF Len(expr) >= 2 /\ expr[1] \in fnames
    THEN LET arg == compile_expr(Tail(expr), cnt, fnames)
             t == temp(arg.counter)
         IN IF arg.exc # "" THEN arg
            ELSE [loc |-> <<t.name>>,
                  code |-> arg.code \o << <<"PUSH">> \o arg.loc,
                                          <<"CALL", expr[1]>>,
                                          <<"MOV", "_retval", t.name>> >>,
                  counter |-> t.counter, exc |-> ""]
    ELSE IF \E op \in {"+", "-"} : Count(expr, op) > 0
    THEN LET op == IF Count(expr, "-") > 0 THEN "-" ELSE "+"
             opc == IF op = "+" THEN "ADD" ELSE "SUB"
         IN IF ~SplitsInTwo(expr, op)
            THEN [loc |-> <<>>, code |-> <<>>, counter |-> cnt, exc |-> "ValueError"]
            ELSE LET i == FirstIndex(expr, op)
                     a == compile_expr(Before(expr, i), cnt, fnames)
                     b == compile_expr(After(expr, i), a.counter, fnames)
                     t == temp(b.counter)
                 IN IF a.exc # "" THEN a
                    ELSE IF b.exc # "" THEN b
                    ELSE [loc |-> <<t.name>>,
                          code |-> a.code \o b.code \o
                                   << <<opc>> \o a.loc \o b.loc \o <<t.name>> >>,
                          counter |-> t.counter, exc |-> ""]
    ELSE [loc |-> expr, code |-> <<>>, counter |-> cnt, exc |-> ""]

\* [loc, code, counter, exc]
compile_expr(expr, cnt, fnames) ==
    IF Len(expr) >= 2 /\ expr[1] \in fnames
    THEN \* irony.py:53-62  function call
         LET arg == compile_expr(Tail(expr), cnt, fnames)
             t == temp(arg.counter)
         IN IF arg.exc # "" THEN arg
            ELSE [loc |-> <<t.name>>,
                  code |-> arg.code \o << <<"PUSH">> \o arg.loc,
                                          <<"CALL", expr[1]>>,
                                          <<"MOV", "_retval", t.name>> >>,
                  counter |-> t.counter, exc |-> ""]
    ELSE IF \E op \in {"+", "-"} : Count(expr, op) > 0
    THEN \* irony.py:65-78  "+" is looked for before "-"
         LET op == IF Count(expr, "+") > 0 THEN "+" ELSE "-"
             opc == IF op = "+" THEN "ADD" ELSE "SUB"
         IN IF ~SplitsInTwo(expr, op)
            THEN [loc |-> <<>>, code |-> <<>>, counter |-> cnt, exc |-> "ValueError"]
            ELSE LET i == FirstIndex(expr, op)
                     a == compile_expr(Before(expr, i), cnt, fnames)
                     b == compile_expr(After(expr, i), a.counter, fnames)
                     t == temp(b.counter)
                 IN IF a.exc # "" THEN a
                    ELSE IF b.exc # "" THEN b
                    ELSE [loc |-> <<t.name>>,
                          code |-> a.code \o b.code \o
                                   << <<opc>> \o a.loc \o b.loc \o <<t.name>> >>,
                          counter |-> t.counter, exc |-> ""]
    ELSE \* irony.py:81  number literal or variable
         [loc |-> expr, code |-> <<>>, counter |-> cnt, exc |-> ""]

RECURSIVE compile_stmt(_, _, _, _)
RECURSIVE compile_body(_, _, _, _)

\* the result of a failed compilation step: the exception propagates, the
\* output list is of no further use
Failed(r) == [output |-> <<>>, counter |-> r.counter, exc |-> r.exc]

\* for s in body: compile_stmt(s, output)    [output, counter, exc]
compile_body(body, output, cnt, fnames) ==
    IF body = <<>> THEN [output |-> output, counter |-> cnt, exc |-> ""]
    ELSE LET rest(r) == IF r.exc # "" THEN r
                        ELSE compile_body(Tail(body), r.output, r.counter, fnames)
         IN rest(compile_stmt(Head(body), output, cnt, fnames))

\* Variant of compile_if that compiles both sides of "<" and compares with the right one
compile_if_both_sides(stmt, output, cnt, fnames) ==
    IF ~SplitsInTwo(stmt.cond, "<")
    THEN [output |-> <<>>, counter |-> cnt, exc |-> "ValueError"]
    ELSE LET i == FirstIndex(stmt.cond, "<")
             close(b, label) ==
                 IF b.exc # "" THEN b
                 ELSE [b EXCEPT !.output = Append(@, <<"LABEL", label.name \o "_end">>)]
             body(l, r, label) ==
                 IF l.exc # "" THEN Failed(l)
                 ELSE IF r.exc # "" THEN Failed(r)
                 ELSE close(compile_body(stmt.body,
                                output \o l.code \o r.code \o
                                  << <<"JGE">> \o l.loc \o r.loc \o <<label.name \o "_end">> >>,
                                label.counter, fnames),
                            label)
             right(l, r) == body(l, r, temp(r.counter))
             left(l) == right(l, compile_expr(After(stmt.cond, i), l.counter, fnames))
         IN left(compile_expr(Before(stmt.cond, i), cnt, fnames))

\* irony.py:93-102  the if statement: only the text left of "<" is compiled
\* and the threshold of the JGE is the constant 2
compile_if(stmt, output, cnt, fnames) ==
    IF ~SplitsInTwo(stmt.cond, "<")
    THEN [output |-> <<>>, counter |-> cnt, exc |-> "ValueError"]
    ELSE LET close(b, label) ==
                 IF b.exc # "" THEN b
                 ELSE [b EXCEPT !.output = Append(@, <<"LABEL", label.name \o "_end">>)]
             body(c, label) ==
                 IF c.exc # "" THEN Failed(c)
                 ELSE close(compile_body(stmt.body,
                                output \o c.code \o
                                  << <<"JGE">> \o c.loc \o <<"2", label.name \o "_end">> >>,
                                label.counter, fnames),
                            label)
             cond(c) == body(c, temp(c.counter))
         IN cond(compile_expr(Before(stmt.cond, FirstIndex(stmt.cond, "<")), cnt, fnames))

\* Variant of compile_for that tests after the body (a post-test loop)
compile_for_post_test(stmt, output, cnt, fnames) ==
    LET finish(b, loop_label, end_label, end_var, inc_tmp) ==
            IF b.exc # "" THEN b
            ELSE [output |-> b.output \o << <<"ADD", stmt.var, "1", inc_tmp.name>>,
                                            <<"MOV", inc_tmp.name, stmt.var>>,
                                            <<"JGT", stmt.var, end_var.name,
                                              end_label.name \o "_end">>,
                                            <<"JMP", loop_label.name \o "_start">>,
                                            <<"LABEL", end_label.name \o "_end">> >>,
                  counter |-> inc_tmp.counter, exc |-> ""]
        body(b, loop_label, end_label, end_var) ==
            finish(b, loop_label, end_label, end_var, temp(b.counter))
        head(s, e, loop_label, end_label, end_var) ==
            body(compile_body(stmt.body,
                     output \o s.code \o << <<"MOV">> \o s.loc \o <<stmt.var>> >>
                            \o e.code \o << <<"MOV">> \o e.loc \o <<end_var.name>>,
                                            <<"LABEL", loop_label.name \o "_start">> >>,
                     end_var.counter, fnames),
                 loop_label, end_label, end_var)
        labels2(s, e, loop_label, end_label) ==
            head(s, e, loop_label, end_label, temp(end_label.counter))
        labels1(s, e, loop_label) == labels2(s, e, loop_label, temp(loop_label.counter))
        to(s, e) == IF e.exc # "" THEN Failed(e) ELSE labels1(s, e, temp(e.counter))
        from(s) == IF s.exc # "" THEN Failed(s)
                   ELSE to(s, compile_expr(stmt.to, s.counter, fnames))
    IN from(compile_expr(stmt.from, cnt, fnames))

\* irony.py:103-139  the for statement
compile_for(stmt, output, cnt, fnames) ==
    LET finish(b, loop_label, end_label, inc_tmp) ==
            IF b.exc # "" THEN b
            ELSE [output |-> b.output \o << <<"ADD", stmt.var, "1", inc_tmp.name>>,
                                            <<"MOV", inc_tmp.name, stmt.var>>,
                                            <<"JMP", loop_label.name \o "_start">>,
                                            <<"LABEL", end_label.name \o "_end">> >>,
                  counter |-> inc_tmp.counter, exc |-> ""]
        body(b, loop_label, end_label) ==
            finish(b, loop_label, end_label, temp(b.counter))
        head(s, e, loop_label, end_label, end_var) ==
            body(compile_body(stmt.body,
                     output \o s.code \o << <<"MOV">> \o s.loc \o <<stmt.var>> >>
                            \o e.code \o << <<"MOV">> \o e.loc \o <<end_var.name>>,
                                            <<"LABEL", loop_label.name \o "_start">>,
                                            <<"JGT", stmt.var, end_var.name,
                                              end_label.name \o "_end">> >>,
                     end_var.counter, fnames),
                 loop_label, end_label)
        labels2(s, e, loop_label, end_label) ==
            head(s, e, loop_label, end_label, temp(end_label.counter))
        labels1(s, e, loop_label) == labels2(s, e, loop_label, temp(loop_label.counter))
        to(s, e) == IF e.exc # "" THEN Failed(e) ELSE labels1(s, e, temp(e.counter))
        from(s) == IF s.exc # "" THEN Failed(s)
                   ELSE to(s, compile_expr(stmt.to, s.counter, fnames))
    IN from(compile_expr(stmt.from, cnt, fnames))

\* irony.py:83-143  compile_stmt(stmt, output): [output, counter, exc]
compile_stmt(stmt, output, cnt, fnames) ==
    IF stmt.type \in {"assign", "return", "print"}
    THEN LET last(r) == CASE stmt.type = "assign" -> <<"MOV">> \o r.loc \o <<stmt.var>>
                          [] stmt.type = "return" -> <<"RET">> \o r.loc
                          [] stmt.type = "print" -> <<"PRINT">> \o r.loc
             emit(r) == IF r.exc # "" THEN Failed(r)
                        ELSE [output |-> output \o r.code \o <<last(r)>>,
                              counter |-> r.counter, exc |-> ""]
         IN emit(compile_expr(stmt.expr, cnt, fnames))
    ELSE IF stmt.type = "if" THEN compile_if(stmt, output, cnt, fnames)
    ELSE IF stmt.type = "for" THEN compile_for(stmt, output, cnt, fnames)
    ELSE \* a def inside a block matches no branch of compile_stmt
         [output |-> output, counter |-> cnt, exc |-> ""]

\* irony.py:145-151
compile_fn(fn, cnt, fnames) ==
    compile_body(fn.body, << <<"LABEL", fn.name>>, <<"PARAM", fn.arg>> >>, cnt, fnames)

\* irony.py:159-168  the loop of compile_all over the top-level items, the
\* function code and the main code accumulated in st: of the statements that
\* are no def, only assign, print and for are compiled
RECURSIVE compile_items(_, _, _)
compile_items(ast, st, fnames) ==
    IF ast = <<>> \/ st.exc # "" THEN st
    ELSE LET item == Head(ast)
             function(f) == [st EXCEPT !.code = @ \o f.output,
                                       !.counter = f.counter, !.exc = f.exc]
             statement(m) == [st EXCEPT !.main_code = m.output,
                                        !.counter = m.counter, !.exc = m.exc]
         IN compile_items(Tail(ast),
                IF item.type = "def"
                THEN function(compile_fn(item, st.counter, fnames))
                ELSE IF item.type \in {"assign", "print", "for"}
                THEN statement(compile_stmt(item, st.main_code, st.counter, fnames))
                ELSE st,
                fnames)

\* Variant of assemble without the JMP main in front
assemble_without_jump(st) ==
    [code |-> IF st.exc # "" THEN <<>>
              ELSE st.code \o << <<"LABEL", "main">> >> \o st.main_code \o << <<"HALT">> >>,
     counter |-> st.counter, exc |-> st.exc]

\* irony.py:170-175  the assembly put together      [code, counter, exc]
assemble(st) ==
    [code |-> IF st.exc # "" THEN <<>>
              ELSE << <<"JMP", "main">> >> \o st.code \o << <<"LABEL", "main">> >>
                   \o st.main_code \o << <<"HALT">> >>,
     counter |-> st.counter, exc |-> st.exc]

\* irony.py:153-175  [code, counter, exc]
compile_all(ast, cnt, fnames) ==
    assemble(compile_items(ast, [code |-> <<>>, main_code |-> <<>>,
                                 counter |-> cnt, exc |-> ""], fnames))

\* irony.py:437-439  ast = parse(source); assembly = compile_all(ast), from
\* the globals (fnames, cnt) as they stand: what compile returns or raises
\* and the globals it leaves    [assembly, function_names, counter, exc, line]
compile_from(source, fnames, cnt) ==
    LET compiled(p, c) ==
            [assembly |-> c.code, function_names |-> p.function_names,
             counter |-> c.counter, exc |-> c.exc, line |-> <<>>]
        parsed(p) ==
            IF p.exc # ""
            THEN [assembly |-> <<>>, function_names |-> p.function_names,
                  counter |-> cnt, exc |-> p.exc, line |-> p.line]
            ELSE compiled(p, compile_all(p.ast, cnt, p.function_names))
    IN parsed(parse(source, fnames))

---------------------------------------------------------------------------
(* The test programs of src/pathos/irony.py (lines 459-508) *)

\* irony.py:460-472, with the argument of the call in main as a parameter
fib_source(n) ==
    << <<"def", "fib", "n">>,
       <<"if", "n", "<", "2">>,
       <<"return", "n">>,
       <<"end">>,
       <<"a", "=", "fib", "n", "-", "1">>,
       <<"b", "=", "fib", "n", "-", "2">>,
       <<"return", "a", "+", "b">>,
       <<"end">>,
       <<>>,
       <<"main", "=", "fib", ToString(n)>>,
       <<"print", "main">> >>

\* irony.py:475-486
for_loop_source ==
    << <<"sum", "=", "0">>,
       <<"for", "i", "from", "1", "to", "5">>,
       <<"sum", "=", "sum", "+", "i">>,
       <<"print", "i">>,
       <<"end">>,
       <<"print", "sum">>,
       <<>>,
       <<"for", "j", "from", "10", "to", "12">>,
       <<"print", "j">>,
       <<"end">> >>

\* irony.py:489-508
even_odd_source ==
    << <<"def", "is_even", "n">>,
       <<"if", "n", "<", "1">>,
       <<"return", "1">>,
       <<"end">>,
       <<"return", "is_odd", "n", "-", "1">>,
       <<"end">>,
       <<>>,
       <<"def", "is_odd", "n">>,
       <<"if", "n", "<", "1">>,
       <<"return", "0">>,
       <<"end">>,
       <<"return", "is_even", "n", "-", "1">>,
       <<"end">>,
       <<>>,
       <<"result", "=", "is_even", "6">>,
       <<"print", "result">>,
       <<"result", "=", "is_even", "5">>,
       <<"print", "result">> >>

---------------------------------------------------------------------------
(* Virtual machine: src/pathos/irony.py class VirtualHardware.  A machine  *)
(* is a record of the instance's fields; a method is an operator from the  *)
(* machine to the machine it leaves (and the value it returns).  program   *)
(* is indexed from 1, so the instruction at pc is program[pc + 1].         *)

memory_size == 512
stack_size == 16
num_registers == 16

EmptyScope == [x \in {} |-> 0]

\* irony.py:179-199
VirtualHardware_init ==
    [memory |-> [a \in 0..(memory_size - 1) |-> 0],
     registers |-> [r \in 0..(num_registers - 1) |-> 0],
     stack |-> [i \in 0..(stack_size - 1) |-> 0],
     pc |-> 0, sp |-> 0, bp |-> 0,
     labels |-> EmptyScope,
     next_mem_addr |-> 0,
     scope_stack |-> <<EmptyScope>>,
     program |-> <<>>,
     output |-> <<>>,
     exc |-> ""]

Raise(v, e) == [v EXCEPT !.exc = e]

\* irony.py:207-210  label name -> index of its (last) LABEL line
LabelMap(code) ==
    LET idx == {i \in 1..Len(code) : Len(code[i]) >= 2 /\ code[i][1] = "LABEL"}
    IN [n \in {code[i][2] : i \in idx} |->
          (CHOOSE i \in idx : code[i][2] = n /\ \A j \in idx : code[j][2] = n => j <= i) - 1]

\* irony.py:201-210
load_program(v, code) == [v EXCEPT !.program = code, !.labels = LabelMap(code)]

\* irony.py:212-214
is_temp_var(w) == \E n \in DOMAIN TempWords : TempWords[n] = w

\* Variant of get_temp_register that wraps around after 8 registers
get_temp_register_mod8(w) == (CHOOSE n \in DOMAIN TempWords : TempWords[n] = w) % 8

\* irony.py:216-221  register of a temp: its number modulo 16
get_temp_register(w) == (CHOOSE n \in DOMAIN TempWords : TempWords[n] = w) % num_registers

\* Variant of get_var_addr that numbers the addresses of each scope from 0
get_var_addr_from_zero(v, w) ==
    IF Len(v.scope_stack) = 0 THEN [vm |-> Raise(v, "IndexError"), addr |-> 0]
    ELSE LET top == Len(v.scope_stack)
             current_scope == v.scope_stack[top]
             addr == Cardinality(DOMAIN current_scope)
         IN IF w \in DOMAIN current_scope
            THEN [vm |-> v, addr |-> current_scope[w]]
            ELSE [vm |-> [v EXCEPT !.next_mem_addr = @ + 1,
                                   !.scope_stack[top] = (w :> addr) @@ @],
                  addr |-> addr]

\* Variant of get_var_addr that looks the name up in the enclosing scopes,
\* innermost first, before it allocates (dynamic scoping)
get_var_addr_enclosing(v, w) ==
    LET holders == {i \in 1..Len(v.scope_stack) : w \in DOMAIN v.scope_stack[i]}
        top == Len(v.scope_stack)
    IN IF top = 0 THEN [vm |-> Raise(v, "IndexError"), addr |-> 0]
       ELSE IF holders # {}
       THEN [vm |-> v,
             addr |-> v.scope_stack[CHOOSE i \in holders : \A j \in holders : j <= i][w]]
       ELSE [vm |-> [v EXCEPT !.next_mem_addr = @ + 1,
                              !.scope_stack[top] = (w :> v.next_mem_addr) @@ @],
             addr |-> v.next_mem_addr]

\* irony.py:223-238  address of an ordinary variable in the current (top)
\* scope, allocated on first reference: [vm, addr]
get_var_addr(v, w) ==
    IF Len(v.scope_stack) = 0 THEN [vm |-> Raise(v, "IndexError"), addr |-> 0]
    ELSE LET top == Len(v.scope_stack)
             current_scope == v.scope_stack[top]
         IN IF w \in DOMAIN current_scope
            THEN [vm |-> v, addr |-> current_scope[w]]
            ELSE [vm |-> [v EXCEPT !.next_mem_addr = @ + 1,
                                   !.scope_stack[top] = (w :> v.next_mem_addr) @@ @],
                  addr |-> v.next_mem_addr]

\* irony.py:240-251  [vm, val]
eval_arg(v, w) ==
    IF IsLiteral(w) THEN [vm |-> v, val |-> LitValue(w)]
    ELSE IF is_temp_var(w) THEN [vm |-> v, val |-> v.registers[get_temp_register(w)]]
    ELSE LET a == get_var_addr(v, w)
         IN IF a.vm.exc # "" THEN [vm |-> a.vm, val |-> 0]
            ELSE IF a.addr >= memory_size THEN [vm |-> Raise(a.vm, "IndexError"), val |-> 0]
            ELSE [vm |-> a.vm, val |-> a.vm.memory[a.addr]]

\* irony.py:253-262
set_var(v, w, value) ==
    IF is_temp_var(w) THEN [v EXCEPT !.registers[get_temp_register(w)] = value]
    ELSE LET a == get_var_addr(v, w)
         IN IF a.vm.exc # "" THEN a.vm
            ELSE IF a.addr >= memory_size THEN Raise(a.vm, "IndexError")
            ELSE [a.vm EXCEPT !.memory[a.addr] = value]

\* Variant of push that overwrites the top entry of a full stack
push_overwrite(v, value) ==
    IF v.sp >= stack_size THEN [v EXCEPT !.stack[stack_size - 1] = value]
    ELSE [v EXCEPT !.stack[v.sp] = value, !.sp = @ + 1]

\* irony.py:264-269
push(v, value) ==
    IF v.sp >= stack_size THEN Raise(v, "RuntimeError: Stack overflow")
    ELSE [v EXCEPT !.stack[v.sp] = value, !.sp = @ + 1]

\* Variant of pop without the test for an empty stack (as pop_stack,
\* preirony.py:377-380): Python's stack[-1] is the last entry
pop_unchecked(v) ==
    [vm |-> [v EXCEPT !.sp = @ - 1], val |-> v.stack[(v.sp - 1) % stack_size]]

\* irony.py:271-276  [vm, val]
pop(v) ==
    IF v.sp <= 0 THEN [vm |-> Raise(v, "RuntimeError: Stack underflow"), val |-> 0]
    ELSE [vm |-> [v EXCEPT !.sp = @ - 1], val |-> v.stack[v.sp - 1]]

\* parts[i] of the instruction (i counted from 0 as in the code)
HasPart(parts, i) == Len(parts) > i
Part(parts, i) == parts[i + 1]

\* Variant of jump that goes on with the next instruction when the label
\* has no LABEL line
jump_lenient(v, label) ==
    IF label \in DOMAIN v.labels THEN [v EXCEPT !.pc = v.labels[label]]
    ELSE [v EXCEPT !.pc = @ + 1]

\* self.pc = self.labels[label]
jump(v, label) ==
    IF label \in DOMAIN v.labels THEN [v EXCEPT !.pc = v.labels[label]]
    ELSE Raise(v, "KeyError")

\* self.pc += 1 at the bottom of the loop (irony.py:416)
advance(v) == IF v.exc # "" THEN v ELSE [v EXCEPT !.pc = @ + 1]

\* the operand evaluations and stores of an instruction, each skipped once
\* an exception is pending
eval_part(v, parts, i) ==
    IF v.exc # "" THEN [vm |-> v, val |-> 0]
    ELSE IF ~HasPart(parts, i) THEN [vm |-> Raise(v, "IndexError"), val |-> 0]
    ELSE eval_arg(v, Part(parts, i))

set_part(v, parts, i, value) ==
    IF v.exc # "" THEN v
    ELSE IF ~HasPart(parts, i) THEN Raise(v, "IndexError")
    ELSE set_var(v, Part(parts, i), value)

jump_part(v, parts, i) ==
    IF v.exc # "" THEN v
    ELSE IF ~HasPart(parts, i) THEN Raise(v, "IndexError")
    ELSE jump(v, Part(parts, i))

---------------------------------------------------------------------------
(* The instructions: one operator per branch of the loop of run            *)
(* (irony.py:295-414), from the machine before the instruction to the      *)
(* machine after it, the pc included.                                      *)

\* irony.py:295-296
OpLABEL(v, parts) == advance(v)

\* irony.py:298-303
OpJMP(v, parts) == jump_part(v, parts, 1)

\* irony.py:305-310
OpPARAM(v, parts) ==
    LET p == pop(v)
    IN advance(set_part(p.vm, parts, 1, p.val))

\* irony.py:312-318
OpMOV(v, parts) ==
    LET s == eval_part(v, parts, 1)
    IN advance(set_part(s.vm, parts, 2, s.val))

\* irony.py:320-328
OpADD(v, parts) ==
    LET a == eval_part(v, parts, 1)
        b == eval_part(a.vm, parts, 2)
    IN advance(set_part(b.vm, parts, 3, a.val + b.val))

\* irony.py:330-338
OpSUB(v, parts) ==
    LET a == eval_part(v, parts, 1)
        b == eval_part(a.vm, parts, 2)
    IN advance(set_part(b.vm, parts, 3, a.val - b.val))

\* irony.py:340-349
OpRET(v, parts) ==
    LET val == eval_part(v, parts, 1)
        ra == IF val.vm.exc # "" THEN [vm |-> val.vm, val |-> 0] ELSE pop(val.vm)
        popped == IF ra.vm.exc # "" THEN ra.vm
                  ELSE IF Len(ra.vm.scope_stack) = 0 THEN Raise(ra.vm, "IndexError")
                  ELSE [ra.vm EXCEPT !.scope_stack = Front(@)]
        stored == IF popped.exc # "" THEN popped ELSE set_var(popped, "_retval", val.val)
    IN IF stored.exc # "" THEN stored ELSE [stored EXCEPT !.pc = ra.val]

\* irony.py:351-363  the threshold is int(parts[2])
OpJGE(v, parts) ==
    LET val == eval_part(v, parts, 1)
    IN IF val.vm.exc # "" THEN val.vm
       ELSE IF ~HasPart(parts, 2) THEN Raise(val.vm, "IndexError")
       ELSE IF ~IsLiteral(Part(parts, 2)) THEN Raise(val.vm, "ValueError")
       ELSE IF ~HasPart(parts, 3) THEN Raise(val.vm, "IndexError")
       ELSE IF val.val >= LitValue(Part(parts, 2)) THEN jump(val.vm, Part(parts, 3))
       ELSE advance(val.vm)

\* Variant of OpJGT that also jumps when the value equals the threshold
OpJGT_ge(v, parts) ==
    LET val == eval_part(v, parts, 1)
        threshold == eval_part(val.vm, parts, 2)
    IN IF threshold.vm.exc # "" THEN threshold.vm
       ELSE IF ~HasPart(parts, 3) THEN Raise(threshold.vm, "IndexError")
       ELSE IF val.val >= threshold.val THEN jump(threshold.vm, Part(parts, 3))
       ELSE advance(threshold.vm)

\* irony.py:365-377  the threshold is eval_arg(parts[2])
OpJGT(v, parts) ==
    LET val == eval_part(v, parts, 1)
        threshold == eval_part(val.vm, parts, 2)
    IN IF threshold.vm.exc # "" THEN threshold.vm
       ELSE IF ~HasPart(parts, 3) THEN Raise(threshold.vm, "IndexError")
       ELSE IF val.val > threshold.val THEN jump(threshold.vm, Part(parts, 3))
       ELSE advance(threshold.vm)

\* irony.py:379-384
OpPUSH(v, parts) ==
    LET val == eval_part(v, parts, 1)
    IN IF val.vm.exc # "" THEN val.vm ELSE advance(push(val.vm, val.val))

\* Variant of OpCALL that pushes the argument first and the return address
\* on top of it
OpCALL_swapped(v, parts) ==
    LET arg == pop(v)
        ret_addr == v.pc + 1
        p1 == IF arg.vm.exc # "" THEN arg.vm ELSE push(arg.vm, arg.val)
        p2 == IF p1.exc # "" THEN p1 ELSE push(p1, ret_addr)
        scoped == IF p2.exc # "" THEN p2
                  ELSE [p2 EXCEPT !.scope_stack = Append(@, EmptyScope)]
    IN jump_part(scoped, parts, 1)

\* irony.py:386-397
OpCALL(v, parts) ==
    LET arg == pop(v)
        ret_addr == v.pc + 1
        p1 == IF arg.vm.exc # "" THEN arg.vm ELSE push(arg.vm, ret_addr)
        p2 == IF p1.exc # "" THEN p1 ELSE push(p1, arg.val)
        scoped == IF p2.exc # "" THEN p2
                  ELSE [p2 EXCEPT !.scope_stack = Append(@, EmptyScope)]
    IN jump_part(scoped, parts, 1)

\* irony.py:399-404
OpPRINT(v, parts) ==
    LET val == eval_part(v, parts, 1)
    IN IF val.vm.exc # "" THEN val.vm
       ELSE advance([val.vm EXCEPT !.output = Append(@, ToString(val.val))])

\* irony.py:406-414  HALT and every unknown opcode leave the loop
Breaks(op) ==
    op \notin {"LABEL", "JMP", "PARAM", "MOV", "ADD", "SUB", "RET", "JGE", "JGT",
               "PUSH", "CALL", "PRINT"}

\* irony.py:295-414  the dispatch on the opcode
exec_instr(v, parts) ==
    LET op == parts[1]
    IN CASE op = "LABEL" -> OpLABEL(v, parts)
         [] op = "JMP" -> OpJMP(v, parts)
         [] op = "PARAM" -> OpPARAM(v, parts)
         [] op = "MOV" -> OpMOV(v, parts)
         [] op = "ADD" -> OpADD(v, parts)
         [] op = "SUB" -> OpSUB(v, parts)
         [] op = "RET" -> OpRET(v, parts)
         [] op = "JGE" -> OpJGE(v, parts)
         [] op = "JGT" -> OpJGT(v, parts)
         [] op = "PUSH" -> OpPUSH(v, parts)
         [] op = "CALL" -> OpCALL(v, parts)
         [] op = "PRINT" -> OpPRINT(v, parts)
         [] OTHER -> v

\* irony.py:280-282  run() starts by setting pc, sp and output, nothing else
run_start(v) == [v EXCEPT !.pc = 0, !.sp = 0, !.output = <<>>, !.exc = ""]

\* the instruction the loop fetches (irony.py:288): a negative pc indexes the
\* program from its end, as Python lists do         [ok, parts]
fetch(v) ==
    LET n == Len(v.program)
    IN IF v.pc >= 0 THEN [ok |-> TRUE, parts |-> v.program[v.pc + 1]]
       ELSE IF v.pc >= 0 - n THEN [ok |-> TRUE, parts |-> v.program[n + v.pc + 1]]
       ELSE [ok |-> FALSE, parts |-> <<>>]

\* irony.py:287-418  one pass of the while loop: [vm, done]; done when the
\* test of the while fails or the body breaks, and run returns self.output
run_step(v) ==
    IF v.pc >= Len(v.program) THEN [vm |-> v, done |-> TRUE]
    ELSE LET f == fetch(v)
         IN IF ~f.ok THEN [vm |-> Raise(v, "IndexError"), done |-> FALSE]
            ELSE IF Len(f.parts) = 0 THEN [vm |-> Raise(v, "IndexError"), done |-> FALSE]
            ELSE IF Breaks(f.parts[1]) THEN [vm |-> v, done |-> TRUE]
            ELSE [vm |-> exec_instr(v, f.parts), done |-> FALSE]

---------------------------------------------------------------------------
(* The trace of run(debug=True): the lines the print statements under      *)
(* `if debug:` write to standard output (irony.py:284-285, 292-293 and one *)
(* per branch of the dispatch).  The arrow of the f-strings is written ->. *)

\* the line of assembly, its words separated by one blank
RECURSIVE instr_text(_)
instr_text(parts) ==
    IF parts = <<>> THEN ""
    ELSE IF Len(parts) = 1 THEN parts[1]
    ELSE parts[1] \o " " \o instr_text(Tail(parts))

\* the format {n:02}
Pad2(n) == IF n >= 0 /\ n < 10 THEN "0" \o ToString(n) ELSE ToString(n)

\* irony.py:285
start_line(v) == "=== Starting execution with SP=" \o ToString(v.sp) \o " ==="

\* irony.py:293
fetch_line(v, parts) ==
    "[PC=" \o Pad2(v.pc) \o "] [SP=" \o Pad2(v.sp) \o "] " \o instr_text(parts)

\* "register" if self.is_temp_var(name) else "memory"
dest_loc(name) == IF is_temp_var(name) THEN "register" ELSE "memory"

\* the line of the branch taken, from the machine v before the instruction;
\* v2 is the machine after it.  JMP, CALL and a taken JGE or JGT print
\* before they look the label up, every other branch prints after its work:
\* <<>> when the exception came before the print
op_line(v, parts, v2) ==
    LET op == parts[1]
        reached == v2.exc = ""
        before_lookup == v2.exc \in {"", "KeyError"}
        a == eval_part(v, parts, 1)
        b == eval_part(a.vm, parts, 2)
    IN CASE op = "LABEL" -> <<>>
         [] op = "JMP" ->
              IF before_lookup THEN <<"  -> JMP to " \o parts[2]>> ELSE <<>>
         [] op = "PARAM" ->
              IF reached
              THEN <<"  -> PARAM " \o parts[2] \o " = " \o ToString(pop(v).val)>>
              ELSE <<>>
         [] op = "MOV" ->
              IF reached
              THEN <<"  -> MOV " \o parts[3] \o " = " \o ToString(a.val)
                     \o " (" \o dest_loc(parts[3]) \o ")">>
              ELSE <<>>
         [] op = "ADD" ->
              IF reached
              THEN <<"  -> ADD " \o ToString(a.val) \o " + " \o ToString(b.val)
                     \o " = " \o ToString(a.val + b.val) \o " -> " \o parts[4]
                     \o " (" \o dest_loc(parts[4]) \o ")">>
              ELSE <<>>
         [] op = "SUB" ->
              IF reached
              THEN <<"  -> SUB " \o ToString(a.val) \o " - " \o ToString(b.val)
                     \o " = " \o ToString(a.val - b.val) \o " -> " \o parts[4]
                     \o " (" \o dest_loc(parts[4]) \o ")">>
              ELSE <<>>
         [] op = "RET" ->
              IF reached
              THEN <<"  -> RET " \o ToString(a.val) \o " -> return to PC="
                     \o ToString(pop(a.vm).val)>>
              ELSE <<>>
         [] op = "JGE" ->
              IF ~before_lookup THEN <<>>
              ELSE IF a.val >= LitValue(parts[3])
              THEN <<"  -> JGE " \o ToString(a.val) \o " >= " \o parts[3]
                     \o ", jumping to " \o parts[4]>>
              ELSE <<"  -> JGE " \o ToString(a.val) \o " < " \o parts[3]
                     \o ", not jumping">>
         [] op = "JGT" ->
              IF ~before_lookup THEN <<>>
              ELSE IF a.val > b.val
              THEN <<"  -> JGT " \o ToString(a.val) \o " > " \o ToString(b.val)
                     \o ", jumping to " \o parts[4]>>
              ELSE <<"  -> JGT " \o ToString(a.val) \o " <= " \o ToString(b.val)
                     \o ", not jumping">>
         [] op = "PUSH" ->
              IF reached THEN <<"  -> PUSH " \o ToString(a.val)>> ELSE <<>>
         [] op = "CALL" ->
              IF before_lookup
              THEN <<"  -> CALL " \o parts[2] \o ", arg=" \o ToString(pop(v).val)
                     \o ", return addr = " \o ToString(v.pc + 1)>>
              ELSE <<>>
         [] op = "PRINT" ->
              IF reached THEN <<"  -> PRINT " \o ToString(a.val)>> ELSE <<>>
         [] op = "HALT" -> <<"  -> HALT">>
         [] OTHER -> <<"!! Unknown instruction: " \o instr_text(parts)>>

\* what one pass of the loop prints when debug is set
debug_trace(v, v2) ==
    IF v.pc >= Len(v.program) \/ ~fetch(v).ok \/ Len(fetch(v).parts) = 0 THEN <<>>
    ELSE <<fetch_line(v, fetch(v).parts)>> \o op_line(v, fetch(v).parts, v2)

\* Variant of run_debug in which the trace goes to self.output
run_debug_into_output(v, debug) ==
    LET traced(r) ==
          [vm |-> IF debug THEN [r.vm EXCEPT !.output = @ \o debug_trace(v, r.vm)]
                  ELSE r.vm,
           done |-> r.done, printed |-> <<>>]
    IN traced(run_step(v))

\* irony.py:287-418  one pass of the loop of run(debug): [vm, done, printed]
run_debug(v, debug) ==
    LET traced(r) ==
          [vm |-> r.vm, done |-> r.done,
           printed |-> IF debug THEN debug_trace(v, r.vm) ELSE <<>>]
    IN traced(run_step(v))

---------------------------------------------------------------------------
(* The state the teaching variant and the shell start with.                *)
(* src/from_code_to_machine/preirony.py keeps the hardware in module-level *)
(* variables; src/from_code_to_machine/pathos.py creates the sample        *)
(* programs in /users/test, the directory the user test works in after     *)
(* login.  A file is its list of lines, each line a string.                *)

t_memory_size == 512
t_num_registers == 16
t_stack_size == 16

\* no Shell of src/pathos/pathos.py was constructed
NoShell == [users |-> <<>>, current_user |-> <<>>]

\* preirony.py:123-131  program and labels stand for the parameter code and
\* the local labels of the execute call in progress
hardware_init ==
    [memory |-> [a \in 0..(t_memory_size - 1) |-> 0],
     registers |-> [r \in 0..(t_num_registers - 1) |-> 0],
     stack |-> [i \in 0..(t_stack_size - 1) |-> 0],
     pc |-> 0, sp |-> 0,
     scope_stack |-> <<EmptyScope>>,
     next_mem_addr |-> 0,
     output |-> <<>>,
     program |-> <<>>, labels |-> EmptyScope,
     exc |-> ""]

\* pathos.py:57-69
fs_fib_source ==
    << "def fib n", "if n < 2", "return n", "end", "a = fib n - 1", "b = fib n - 2",
       "return a + b", "end", "", "main = fib 9", "print main" >>

\* pathos.py:73-84
fs_for_loop_source ==
    << "sum = 0", "for i from 1 to 5", "sum = sum + i", "print i", "end", "print sum",
       "", "for j from 10 to 12", "print j", "end" >>

\* pathos.py:88-107
fs_even_odd_source ==
    << "def is_even n", "if n < 1", "return 1", "end", "return is_odd n - 1", "end", "",
       "def is_odd n", "if n < 1", "return 0", "end", "return is_even n - 1", "end", "",
       "result = is_even 6", "print result", "result = is_even 5", "print result" >>

\* random.randint(10000, 99999) of get_next_disk_location (pathos.py:112):
\* the ends of the range stand for it
DiskLocations == {10000, 99999}

\* pathos.py:21-25
File(content, disk_location) == [content |-> content, disk_location |-> disk_location]

\* pathos.py:35-39, 55-108 and login (pathos.py:208-217): the files of
\* /users/test, the current directory of user test
FileSystem_init ==
    [files |-> ("fibonacci.s" :> File(fs_fib_source, 10000))
               @@ ("loops.s" :> File(fs_for_loop_source, 10000))
               @@ ("evenodd.s" :> File(fs_even_odd_source, 10000)),
     next_disk_location |-> 10001]

---------------------------------------------------------------------------
(* The calls of the interface, as steps of the calling code                *)
(* (irony.py:510-523: compile a source, execute the assembly).             *)

\* the calling code before its first call.  kind tells the call in progress
\* ("execute", or "run" for run() called again on the machine in use);
\* started holds until the first pass of the loop of that call; result is
\* the text a shell command returned, as its lines; message is what the
\* exception raised carries (the line of a SyntaxError of parse); debug is
\* the flag of the call in progress and stdout what that call has printed
Idle == [phase |-> "start", source |-> <<>>, assembly |-> <<>>, output |-> <<>>,
         exc |-> "", kind |-> "", started |-> FALSE, result |-> <<>>,
         message |-> <<>>, debug |-> FALSE, stdout |-> <<>>]

\* what a call gave its caller: the value returned, or the exception raised
Outcome(c) == [value |-> IF c.phase = "raised" THEN <<>>
                         ELSE IF c.phase = "compiled" THEN c.assembly ELSE c.output,
               exc |-> c.exc]

\* History.  frames: the CALLs that have not returned, each with the
\* caller's scope and the values of its variables as they were when CALL was
\* executed; ret: the record of the CALL the last instruction returned from;
\* log: the calls made so far, [kind, input]; first: the outcome of the
\* first call made with each input
NoHistory == [frames |-> <<>>, ret |-> <<>>, log |-> <<>>, first |-> EmptyScope]

Logged(h, kind, input) ==
    [h EXCEPT !.log = Append(@, [kind |-> kind, input |-> input]),
              !.frames = <<>>, !.ret = <<>>]

Recorded(h, input, outcome) ==
    IF input \in DOMAIN h.first THEN h
    ELSE [h EXCEPT !.first = (input :> outcome) @@ @]

\* Variant of compile without the reset of the globals (irony.py:433-434)
compile_without_reset(source) ==
    LET done(r) ==
          /\ function_names' = r.function_names
          /\ counter' = r.counter
          /\ caller' = [caller EXCEPT
                          !.phase = IF r.exc = "" THEN "compiled" ELSE "raised",
                          !.source = source, !.assembly = r.assembly, !.exc = r.exc,
                          !.message = r.line, !.kind = "compile"]
    IN done(compile_from(source, function_names, counter))

\* irony.py:420-439  compile(source): the globals are reset, then parse and
\* compile_all run on them; the caller gets the assembly or the exception
compile(source) ==
    LET done(r) ==
          /\ function_names' = r.function_names
          /\ counter' = r.counter
          /\ caller' = [caller EXCEPT
                          !.phase = IF r.exc = "" THEN "compiled" ELSE "raised",
                          !.source = source, !.assembly = r.assembly, !.exc = r.exc,
                          !.message = r.line, !.kind = "compile"]
    IN done(compile_from(source, {}, 0))

\* Variant of execute that keeps one machine for all calls instead of making
\* a new VirtualHardware for each
execute_same_machine(code, debug) ==
    /\ vm' = run_start(load_program(vm, code))
    /\ caller' = [caller EXCEPT !.phase = "running", !.assembly = code, !.output = <<>>,
                                !.exc = "", !.kind = "execute", !.started = TRUE,
                                !.debug = debug,
                                !.stdout = IF debug THEN <<start_line(vm')>> ELSE <<>>]

\* irony.py:441-454  execute(code, debug) up to the first test of the loop
\* of run: a new VirtualHardware, load_program, and the start of run
execute(code, debug) ==
    /\ vm' = run_start(load_program(VirtualHardware_init, code))
    /\ caller' = [caller EXCEPT !.phase = "running", !.assembly = code, !.output = <<>>,
                                !.exc = "", !.kind = "execute", !.started = TRUE,
                                !.debug = debug,
                                !.stdout = IF debug THEN <<start_line(vm')>> ELSE <<>>]

\* the record of a CALL, taken from the machine v about to execute it: pc
\* and sp there, arg the entry on top of the stack, and param, filled in
\* later, the value the first PARAM after the CALL gave its variable
Snapshot(v) ==
    LET scope == Last(v.scope_stack)
    IN [scope |-> scope,
        vals |-> [w \in DOMAIN scope |->
                    IF scope[w] < memory_size THEN v.memory[scope[w]] ELSE 0],
        pc |-> v.pc, sp |-> v.sp, arg |-> pop(v).val, param |-> <<>>]

Track(h, v, v2) ==
    LET f == fetch(v)
        op == IF f.ok /\ Len(f.parts) > 0 /\ v2.exc = "" THEN f.parts[1] ELSE ""
    IN IF op = "CALL" THEN [h EXCEPT !.frames = Append(@, Snapshot(v)), !.ret = <<>>]
       ELSE IF op = "RET" /\ Len(h.frames) > 0
       THEN [h EXCEPT !.frames = Front(@), !.ret = <<Last(h.frames)>>]
       ELSE IF op = "PARAM" /\ Len(h.frames) > 0 /\ Last(h.frames).param = <<>>
       THEN [h EXCEPT !.frames[Len(h.frames)].param = <<eval_arg(v2, f.parts[2]).val>>,
                      !.ret = <<>>]
       ELSE [h EXCEPT !.ret = <<>>]

\* irony.py:287-418  one pass of the loop of run, and the return of run and
\* execute to the caller when the loop is left
Step ==
    /\ caller.phase = "running"
    /\ LET after(r) ==
             /\ vm' = r.vm
             /\ caller' = IF r.vm.exc # ""
                          THEN [caller EXCEPT !.phase = "raised", !.exc = r.vm.exc,
                                              !.started = FALSE,
                                              !.stdout = @ \o r.printed]
                          ELSE IF r.done
                          THEN [caller EXCEPT !.phase = "returned",
                                              !.output = r.vm.output,
                                              !.started = FALSE,
                                              !.stdout = @ \o r.printed]
                          ELSE [caller EXCEPT !.started = FALSE,
                                              !.stdout = @ \o r.printed]
             /\ hist' = IF r.vm.exc # "" \/ r.done
                        THEN IF caller.kind = "execute"
                             THEN Recorded(hist, caller.assembly, Outcome(caller'))
                             ELSE hist
                        ELSE Track(hist, vm, r.vm)
       IN after(run_debug(vm, caller.debug))
    /\ UNCHANGED <<function_names, counter, t_function_names, t_counter, hw, fs, shell>>

---------------------------------------------------------------------------
(* Spec: one of the test programs of irony.py is compiled and executed     *)

Sources == {fib_source(n) : n \in 0..MaxFibN} \cup {for_loop_source, even_odd_source}

Init ==
    /\ function_names = {}
    /\ counter = 0
    /\ vm = VirtualHardware_init
    /\ t_function_names = {}
    /\ t_counter = 0
    /\ hw = hardware_init
    /\ fs = FileSystem_init
    /\ hist = NoHistory
    /\ shell = NoShell
    /\ \E s \in Sources : caller = [Idle EXCEPT !.source = s]

Compile ==
    /\ caller.phase = "start"
    /\ compile(caller.source)
    /\ hist' = Logged(hist, "compile", caller.source)
    /\ UNCHANGED <<vm, t_function_names, t_counter, hw, fs, shell>>

Execute ==
    /\ caller.phase = "compiled"
    /\ execute(caller.assembly, FALSE)
    /\ hist' = Logged(hist, "execute", caller.assembly)
    /\ UNCHANGED <<function_names, counter, t_function_names, t_counter, hw, fs, shell>>

Next == Compile \/ Execute \/ Step

Spec == Init /\ [][Next]_vars

---------------------------------------------------------------------------
(* Properties of Spec *)

Ended == caller.phase \in {"returned", "raised"}

RECURSIVE Fib(_)
Fib(n) == IF n < 2 THEN n ELSE Fib(n - 1) + Fib(n - 2)

\* The recursion of fib n fits the stack: n calls are pending when fib 1 is
\* called, each holding its return address, and that CALL has the return
\* address and the argument on the stack together
FitsStack(n) == n + 1 <= stack_size

\* C1: compiling and executing the fib source with main = fib n prints the
\* n-th Fibonacci number (and nothing else) for every n whose recursion fits
\* the stack; for n = 9 the output is ["34"].
C1_FibPrintsNth ==
    \A n \in 0..MaxFibN :
        caller.source = fib_source(n) /\ FitsStack(n) /\ Ended
            => caller.phase = "returned" /\ caller.output = <<ToString(Fib(n))>>

\* The part of C1 the code does satisfy: fib 9 prints 34, and so does every
\* fib n whose run needs no more than memory_size addresses
FibPrintsNthWithinMemory ==
    \A n \in 0..MaxFibN :
        caller.source = fib_source(n) /\ Ended /\ caller.exc # "IndexError"
            => caller.phase = "returned" /\ caller.output = <<ToString(Fib(n))>>
Fib9Prints34 ==
    caller.source = fib_source(9) /\ Ended
        => caller.phase = "returned" /\ caller.output = <<"34">>

\* C2: compiling and executing the even/odd program prints 1 for is_even 6
\* and then 0 for is_even 5: the output is ["1", "0"].
C2_EvenOddOutput ==
    caller.source = even_odd_source /\ Ended
        => caller.phase = "returned" /\ caller.output = <<"1", "0">>

\* C3: compiling and executing the loops program returns exactly the output
\* ["1","2","3","4","5","15","10","11","12"].
C3_LoopsOutput ==
    caller.source = for_loop_source /\ Ended
        => /\ caller.phase = "returned"
           /\ caller.output = <<"1", "2", "3", "4", "5", "15", "10", "11", "12">>

C3_LoopsRan ==
    /\ caller.source = for_loop_source
    /\ caller.phase = "returned"
    /\ Len(caller.output) = 9

\* The ordinary variables (all names but _retval) a scope held when the
\* snapshot snap of it was taken are still bound to the same addresses in
\* scope, and the memory still holds the same values there
Preserved(snap, scope) ==
    \A w \in DOMAIN snap.scope \ {"_retval"} :
        /\ w \in DOMAIN scope
        /\ scope[w] = snap.scope[w]
        /\ scope[w] < memory_size => vm.memory[scope[w]] = snap.vals[w]

Addresses(scope) == {scope[w] : w \in DOMAIN scope}

\* C4: while a call is pending, the variables of the calling activation
\* (other than _retval) keep the addresses and the values they had at the
\* CALL, whatever the callee - a recursive activation of the same function
\* included - reads or writes; they have them still when the callee has
\* returned; and no address is bound in two scopes, so a callee reads none
\* of its caller's cells.
C4_CallerBindingsIsolated ==
    /\ \A i \in 1..Len(hist.frames) :
          /\ i < Len(vm.scope_stack)
          /\ Preserved(hist.frames[i], vm.scope_stack[i])
    /\ hist.ret # <<>> => /\ Len(vm.scope_stack) > 0
                          /\ Preserved(hist.ret[1], Last(vm.scope_stack))
    /\ \A i, j \in 1..Len(vm.scope_stack) :
          i # j => Addresses(vm.scope_stack[i]) \cap Addresses(vm.scope_stack[j]) = {}

\* a recursive activation has returned to a caller that is itself a pending
\* activation of fib and holds a nonzero n
C4_RecursiveCallReturned ==
    /\ hist.ret # <<>>
    /\ Len(hist.frames) >= 2
    /\ "n" \in DOMAIN hist.ret[1].scope
    /\ hist.ret[1].vals["n"] > 1
    /\ "n" \in DOMAIN hist.frames[2].scope
    /\ hist.frames[2].vals["n"] > hist.ret[1].vals["n"]

\* C5: _retval is bound in the global scope only: no scope above index 0 of
\* the scope stack ever holds a binding for _retval, at any call depth.
C5_RetvalOnlyGlobal ==
    \A i \in 2..Len(vm.scope_stack) : "_retval" \notin DOMAIN vm.scope_stack[i]

---------------------------------------------------------------------------
(* SpecRuns: assembly programs executed one after the other, each by       *)
(* execute (irony.py:441-454) or by run() called once more on the machine  *)
(* the last call left (irony.py:278)                                       *)

\* prints x before it is ever assigned, then counts it up
counter_source == << <<"print", "x">>, <<"x", "=", "x", "+", "1">> >>

\* a function called once from main
call_source ==
    << <<"def", "inc", "n">>,
       <<"return", "n", "+", "1">>,
       <<"end">>,
       <<"y", "=", "inc", "3">>,
       <<"print", "y">> >>

\* hand-written assembly: reads a register before it writes it and ends by
\* running off the end; jumps to a label that does not exist
register_program == << <<"PRINT", "tmp1">>, <<"ADD", "tmp1", "1", "tmp1">> >>
unresolved_program == << <<"PRINT", "7">>, <<"JMP", "nowhere">> >>

RunPrograms ==
    {compile_from(counter_source, {}, 0).assembly,
     compile_from(call_source, {}, 0).assembly,
     register_program, unresolved_program}

InitRuns ==
    /\ function_names = {}
    /\ counter = 0
    /\ vm = VirtualHardware_init
    /\ t_function_names = {}
    /\ t_counter = 0
    /\ hw = hardware_init
    /\ fs = FileSystem_init
    /\ hist = NoHistory
    /\ shell = NoShell
    /\ caller = Idle

Between == caller.phase \in {"start", "returned", "raised"}

ExecuteAny ==
    /\ Between
    /\ Len(hist.log) < MaxRuns
    /\ \E code \in RunPrograms :
          /\ execute(code, FALSE)
          /\ hist' = Logged(hist, "execute", code)
    /\ UNCHANGED <<function_names, counter, t_function_names, t_counter, hw, fs, shell>>

\* irony.py:278-282  vm.run() on the machine the last call left, its program
\* still loaded
RunAgain ==
    /\ caller.phase \in {"returned", "raised"}
    /\ Len(hist.log) < MaxRuns
    /\ vm' = run_start(vm)
    /\ caller' = [caller EXCEPT !.phase = "running", !.output = <<>>, !.exc = "",
                                !.kind = "run", !.started = TRUE,
                                !.debug = FALSE, !.stdout = <<>>]
    /\ hist' = Logged(hist, "run", vm.program)
    /\ UNCHANGED <<function_names, counter, t_function_names, t_counter, hw, fs, shell>>

NextRuns == ExecuteAny \/ RunAgain \/ Step

SpecRuns == InitRuns /\ [][NextRuns]_vars

\* C6: two invocations of execute on the same assembly give the same result
\* (the same output lines, or the same failure), whatever was executed
\* before or in between: the outcome of every execute call equals the
\* outcome of the first execute call made with that assembly.
C6_ExecuteDeterministic ==
    Ended /\ caller.kind = "execute" => Outcome(caller) = hist.first[caller.assembly]

\* an assembly that prints and uses memory was executed, then another one,
\* then the first again
C6_ExecutedAgain ==
    /\ Ended /\ caller.kind = "execute"
    /\ caller.output # <<>>
    /\ vm.next_mem_addr > 0
    /\ Len(hist.log) = 3
    /\ hist.log[1] = [kind |-> "execute", input |-> caller.assembly]
    /\ hist.log[2].kind = "execute" /\ hist.log[2].input # caller.assembly
    /\ hist.log[3] = hist.log[1]

\* C7: run() called on a machine that has already run starts from memory
\* and registers all zero, one empty global scope, next free address 0,
\* stack pointer 0, pc 0 and empty output, and so returns what a run of the
\* same program on a fresh machine returns.
C7_RunStartsReset ==
    /\ caller.kind = "run" /\ caller.started =>
          /\ vm.memory = VirtualHardware_init.memory
          /\ vm.registers = VirtualHardware_init.registers
          /\ vm.scope_stack = <<EmptyScope>>
          /\ vm.next_mem_addr = 0
          /\ vm.sp = 0 /\ vm.pc = 0 /\ vm.output = <<>>
    /\ caller.kind = "run" /\ Ended => Outcome(caller) = hist.first[caller.assembly]

\* The second half of C7 alone: the output of the second run
C7_SecondRunSameOutput ==
    caller.kind = "run" /\ Ended => Outcome(caller) = hist.first[caller.assembly]

---------------------------------------------------------------------------
(* SpecCompile: compile (irony.py:420-439) called on one source after the  *)
(* other, sources that fail included                                       *)

\* calls fib as the fib source does, but defines no function
uses_fib_source == << <<"y", "=", "fib", "3">>, <<"print", "y">> >>

\* the third line matches no statement form: parse raises SyntaxError, after
\* it has added f to function_names
unknown_line_source ==
    << <<"def", "f", "n">>, <<"return", "n", "+", "n">>, <<"oops">>, <<"end">> >>

\* two "+" in one expression: the unpacking at irony.py:66 raises ValueError
\* in compile_all, after temps were handed out for the first statement
two_plus_source ==
    << <<"a", "=", "1", "+", "2">>, <<"b", "=", "a", "+", "a", "+", "a">> >>

CompileSources ==
    {fib_source(9), for_loop_source, even_odd_source, uses_fib_source,
     unknown_line_source, two_plus_source}

InitCompile == InitRuns

CompileAny ==
    /\ Len(hist.log) < MaxCompiles
    /\ \E source \in CompileSources :
          /\ compile(source)
          /\ hist' = Recorded(Logged(hist, "compile", source), source, Outcome(caller'))
    /\ UNCHANGED <<vm, t_function_names, t_counter, hw, fs, shell>>

NextCompile == CompileAny

SpecCompile == InitCompile /\ [][NextCompile]_vars

Opcodes(assembly) == {assembly[i][1] : i \in 1..Len(assembly)}

\* C9: compiling the same source lines again returns the assembly (or
\* raises the exception) of the first time, whatever was compiled in
\* between, successfully or not; and a source that names a function only an
\* earlier source defined is compiled without a CALL.
C9_CompileIndependent ==
    caller.kind = "compile" =>
        /\ Outcome(caller) = hist.first[caller.source]
        /\ caller.source = uses_fib_source =>
              caller.phase = "compiled" /\ "CALL" \notin Opcodes(caller.assembly)

\* a source that uses temps and names fib is compiled, then the fib source
\* or a failing source, then the first again
C9_CompiledAgain ==
    /\ Len(hist.log) = 3
    /\ caller.phase = "compiled"
    /\ counter > 0
    /\ hist.log[1].input = caller.source
    /\ hist.log[3].input = caller.source
    /\ hist.log[2].input \in {fib_source(9), unknown_line_source, two_plus_source}
    /\ caller.source \in {uses_fib_source, for_loop_source}

---------------------------------------------------------------------------
(* The teaching variant: src/from_code_to_machine/preirony.py.             *)
(* Its source lines are strings; str.split() gives the words the patterns  *)
(* are matched on, so the operators of a line are words when they stand    *)
(* between blanks, as in every program of the repository.  An instruction  *)
(* is a tuple of strings ("MOV", "3", "x"), here a sequence of strings.    *)

Char(s, i) == SubSeq(s, i, i)

\* str.split(): the words of a text between its blanks
RECURSIVE SplitWords(_, _, _, _)
SplitWords(s, i, word, acc) ==
    IF i > Len(s) THEN IF word = "" THEN acc ELSE Append(acc, word)
    ELSE IF Char(s, i) = " "
    THEN SplitWords(s, i + 1, "", IF word = "" THEN acc ELSE Append(acc, word))
    ELSE SplitWords(s, i + 1, word \o Char(s, i), acc)

split(s) == SplitWords(s, 1, "", <<>>)

\* sep.join(words)
RECURSIVE join(_, _)
join(sep, words) ==
    IF words = <<>> THEN ""
    ELSE IF Len(words) = 1 THEN words[1]
    ELSE words[1] \o sep \o join(sep, Tail(words))

\* preirony.py:133-136
t_temp(cnt) == [name |-> TempName(cnt + 1), counter |-> cnt + 1]

\* preirony.py:141-142  stripped and not stripped.startswith("#")
t_KeepLine(words) == Len(words) > 0 /\ Char(words[1], 1) # "#"

\* preirony.py:139-144  the lines kept, each as its words
RECURSIVE t_FilterLines(_)
t_FilterLines(lines) ==
    IF lines = <<>> THEN <<>>
    ELSE LET keep(words) == IF t_KeepLine(words) THEN <<words>> ELSE <<>>
         IN keep(split(Head(lines))) \o t_FilterLines(Tail(lines))

\* What parse_statement and parse_block hand back: the node or the body
\* parsed, the position of the next line (pos[0] + 1, lines counted from 1),
\* the global function_names, and the exception raised if any
Parsed(node, body, pos, fnames) ==
    [node |-> node, body |-> body, pos |-> pos, function_names |-> fnames,
     exc |-> "", line |-> <<>>]

RECURSIVE t_parse_block(_, _, _, _)
RECURSIVE t_parse_statement(_, _, _)

\* preirony.py:162-170  body is the list built so far
t_parse_block(lines, pos, fnames, body) ==
    IF pos > Len(lines) THEN Parsed(<<>>, body, pos, fnames)
    ELSE IF IsEndLine(lines[pos]) THEN Parsed(<<>>, body, pos + 1, fnames)
    ELSE LET next(s) == IF s.exc # "" THEN s
                        ELSE t_parse_block(lines, s.pos, s.function_names,
                                           Append(body, s.node))
         IN next(t_parse_statement(lines, pos, fnames))

\* preirony.py:172-198
t_parse_statement(lines, pos, fnames) ==
    LET line == lines[pos]
        block(node, b) == [b EXCEPT !.node = [node EXCEPT !.body = b.body],
                                    !.body = <<>>]
    IN IF IsDefLine(line)
       THEN block(DefNode(line),
                  t_parse_block(lines, pos + 1, fnames \cup {line[2]}, <<>>))
       ELSE IF IsIfLine(line)
       THEN block(IfNode(line), t_parse_block(lines, pos + 1, fnames, <<>>))
       ELSE IF IsReturnLine(line)
       THEN Parsed([type |-> "return", expr |-> Tail(line)], <<>>, pos + 1, fnames)
       ELSE IF IsPrintLine(line)
       THEN Parsed([type |-> "print", expr |-> Tail(line)], <<>>, pos + 1, fnames)
       ELSE IF IsAssignLine(line)
       THEN Parsed([type |-> "assign", var |-> line[1], expr |-> Tail(Tail(line))],
                   <<>>, pos + 1, fnames)
       ELSE [Parsed(<<>>, <<>>, pos + 1, fnames) EXCEPT !.exc = "SyntaxError",
                                                        !.line = line]

\* preirony.py:200-202  the loop over the top-level statements
RECURSIVE t_parse_top(_, _, _, _)
t_parse_top(lines, pos, fnames, ast) ==
    IF pos > Len(lines) THEN Parsed(<<>>, ast, pos, fnames)
    ELSE LET next(s) == IF s.exc # "" THEN s
                        ELSE t_parse_top(lines, s.pos, s.function_names,
                                         Append(ast, s.node))
         IN next(t_parse_statement(lines, pos, fnames))

\* preirony.py:138-204  parse(lines) with the global function_names as it
\* stands at the call: [ast, function_names, exc, line]
t_parse(lines, fnames) ==
    LET result(r) == [ast |-> r.body, function_names |-> r.function_names,
                      exc |-> r.exc, line |-> r.line]
    IN result(t_parse_top(t_FilterLines(lines), 1, fnames, <<>>))

\* preirony.py:224-257  compile_expr(expr): [loc, code, counter]; the text
\* is split at its first "+", or else at its first "-"
RECURSIVE t_compile_expr(_, _, _)
t_compile_expr(expr, cnt, fnames) ==
    IF Len(expr) >= 2 /\ expr[1] \in fnames
    THEN LET call(arg, tmp) ==
                 [loc |-> tmp.name,
                  code |-> arg.code \o << <<"PUSH", arg.loc>>,
                                          <<"CALL", expr[1]>>,
                                          <<"MOV", "_retval", tmp.name>> >>,
                  counter |-> tmp.counter]
             after(arg) == call(arg, t_temp(arg.counter))
         IN after(t_compile_expr(Tail(expr), cnt, fnames))
    ELSE IF \E op \in {"+", "-"} : Count(expr, op) > 0
    THEN LET op == IF Count(expr, "+") > 0 THEN "+" ELSE "-"
             i == FirstIndex(expr, op)
             emit(a, b, t) ==
                 [loc |-> t.name,
                  code |-> a.code \o b.code \o
                           << <<IF op = "+" THEN "ADD" ELSE "SUB", a.loc, b.loc, t.name>> >>,
                  counter |-> t.counter]
             right(a, b) == emit(a, b, t_temp(b.counter))
             left(a) == right(a, t_compile_expr(After(expr, i), a.counter, fnames))
         IN left(t_compile_expr(Before(expr, i), cnt, fnames))
    ELSE [loc |-> join(" ", expr), code |-> <<>>, counter |-> cnt]

RECURSIVE t_compile_stmt(_, _, _, _)
RECURSIVE t_compile_body(_, _, _, _)

\* for s in body: compile_stmt(s, output)    [output, counter, exc]
t_compile_body(body, output, cnt, fnames) ==
    IF body = <<>> THEN [output |-> output, counter |-> cnt, exc |-> ""]
    ELSE LET rest(r) == IF r.exc # "" THEN r
                        ELSE t_compile_body(Tail(body), r.output, r.counter, fnames)
         IN rest(t_compile_stmt(Head(body), output, cnt, fnames))

\* preirony.py:268-291  the if statement: both sides of "<" are compiled and
\* the JGE compares the two results
t_compile_if(stmt, output, cnt, fnames) ==
    IF Count(stmt.cond, "<") = 0
    THEN [output |-> <<>>, counter |-> cnt, exc |-> "SyntaxError"]
    ELSE LET i == FirstIndex(stmt.cond, "<")
             close(b, label) ==
                 IF b.exc # "" THEN b
                 ELSE [b EXCEPT !.output = Append(@, <<"LABEL", label.name \o "_end">>)]
             body(l, r, label) ==
                 close(t_compile_body(stmt.body,
                           output \o l.code \o r.code \o
                             << <<"JGE", l.loc, r.loc, label.name \o "_end">> >>,
                           label.counter, fnames),
                       label)
             right(l, r) == body(l, r, t_temp(r.counter))
             left(l) == right(l, t_compile_expr(After(stmt.cond, i), l.counter, fnames))
         IN left(t_compile_expr(Before(stmt.cond, i), cnt, fnames))

\* preirony.py:259-296  compile_stmt(stmt, output): [output, counter, exc]
t_compile_stmt(stmt, output, cnt, fnames) ==
    IF stmt.type \in {"assign", "return", "print"}
    THEN LET last(r) == CASE stmt.type = "assign" -> <<"MOV", r.loc, stmt.var>>
                          [] stmt.type = "return" -> <<"RET", r.loc>>
                          [] stmt.type = "print" -> <<"PRINT", r.loc>>
             emit(r) == [output |-> output \o r.code \o <<last(r)>>,
                         counter |-> r.counter, exc |-> ""]
         IN emit(t_compile_expr(stmt.expr, cnt, fnames))
    ELSE IF stmt.type = "if" THEN t_compile_if(stmt, output, cnt, fnames)
    ELSE \* a def inside a block matches no branch of compile_stmt
         [output |-> output, counter |-> cnt, exc |-> ""]

\* preirony.py:298-302
t_compile_fn(fn, cnt, fnames) ==
    t_compile_body(fn.body, << <<"LABEL", fn.name>>, <<"PARAM", fn.arg>> >>, cnt, fnames)

\* preirony.py:308-312  the loop of compile_all: every top-level statement
\* that is no def is compiled into the main code
RECURSIVE t_compile_items(_, _, _)
t_compile_items(ast, st, fnames) ==
    IF ast = <<>> \/ st.exc # "" THEN st
    ELSE LET function(f) == [st EXCEPT !.code = @ \o f.output,
                                       !.counter = f.counter, !.exc = f.exc]
             statement(m) == [st EXCEPT !.main_code = m.output,
                                        !.counter = m.counter, !.exc = m.exc]
         IN t_compile_items(Tail(ast),
                IF Head(ast).type = "def"
                THEN function(t_compile_fn(Head(ast), st.counter, fnames))
                ELSE statement(t_compile_stmt(Head(ast), st.main_code, st.counter, fnames)),
                fnames)

\* preirony.py:304-318  [code, counter, exc]
t_compile_all(ast, cnt, fnames) ==
    LET assembled(st) ==
            [code |-> IF st.exc # "" THEN <<>>
                      ELSE << <<"JMP", "main">> >> \o st.code \o << <<"LABEL", "main">> >>
                           \o st.main_code \o << <<"HALT">> >>,
             counter |-> st.counter, exc |-> st.exc]
    IN assembled(t_compile_items(ast, [code |-> <<>>, main_code |-> <<>>,
                                       counter |-> cnt, exc |-> ""], fnames))

\* ast = parse(source); code = compile_all(ast) on the globals (fnames, cnt)
\* as they stand (pathos.py:460-461, preirony.py:503-508): the code or the
\* exception, and the globals left    [code, function_names, counter, exc, line]
t_compile_from(source, fnames, cnt) ==
    LET compiled(p, c) ==
            [code |-> c.code, function_names |-> p.function_names,
             counter |-> c.counter, exc |-> c.exc, line |-> <<>>]
        parsed(p) ==
            IF p.exc # ""
            THEN [code |-> <<>>, function_names |-> p.function_names,
                  counter |-> cnt, exc |-> p.exc, line |-> p.line]
            ELSE compiled(p, t_compile_all(p.ast, cnt, p.function_names))
    IN parsed(t_parse(source, fnames))

---------------------------------------------------------------------------
(* The hardware of the teaching variant (preirony.py:320-492), as          *)
(* operators on the record of the module-level variables.                  *)

\* Python list indexing: list[i] is defined for -n <= i < n, a negative i
\* counting from the end
InList(i, n) == i >= 0 - n /\ i < n
ListIndex(i, n) == IF i >= 0 THEN i ELSE n + i

\* preirony.py:321-322
t_is_temp_var(w) == \E n \in DOMAIN TempWords : TempWords[n] = w

\* preirony.py:324-328
t_get_temp_register(w) ==
    (CHOOSE n \in DOMAIN TempWords : TempWords[n] = w) % t_num_registers

\* preirony.py:330-350  _retval lives in the global scope, every other
\* name in the current one: [vm, addr]
t_get_var_addr(h, w) ==
    IF Len(h.scope_stack) = 0 THEN [vm |-> Raise(h, "IndexError"), addr |-> 0]
    ELSE LET at == IF w = "_retval" THEN 1 ELSE Len(h.scope_stack)
         IN IF w \in DOMAIN h.scope_stack[at]
            THEN [vm |-> h, addr |-> h.scope_stack[at][w]]
            ELSE [vm |-> [h EXCEPT !.next_mem_addr = @ + 1,
                                   !.scope_stack[at] = (w :> h.next_mem_addr) @@ @],
                  addr |-> h.next_mem_addr]

\* preirony.py:352-362  [vm, val]
t_eval_arg(h, w) ==
    IF IsLiteral(w) THEN [vm |-> h, val |-> LitValue(w)]
    ELSE IF t_is_temp_var(w) THEN [vm |-> h, val |-> h.registers[t_get_temp_register(w)]]
    ELSE LET read(a) ==
                 IF a.vm.exc # "" THEN [vm |-> a.vm, val |-> 0]
                 ELSE IF a.addr >= t_memory_size
                 THEN [vm |-> Raise(a.vm, "IndexError"), val |-> 0]
                 ELSE [vm |-> a.vm, val |-> a.vm.memory[a.addr]]
         IN read(t_get_var_addr(h, w))

\* preirony.py:364-370
t_set_var(h, w, value) ==
    IF t_is_temp_var(w) THEN [h EXCEPT !.registers[t_get_temp_register(w)] = value]
    ELSE LET write(a) ==
                 IF a.vm.exc # "" THEN a.vm
                 ELSE IF a.addr >= t_memory_size THEN Raise(a.vm, "IndexError")
                 ELSE [a.vm EXCEPT !.memory[a.addr] = value]
         IN write(t_get_var_addr(h, w))

\* preirony.py:372-375  stack[sp] = value; sp += 1, with no check of sp
push_stack(h, value) ==
    IF ~InList(h.sp, t_stack_size) THEN Raise(h, "IndexError")
    ELSE [h EXCEPT !.stack[ListIndex(h.sp, t_stack_size)] = value, !.sp = @ + 1]

\* preirony.py:377-380  sp -= 1; return stack[sp], with no check of sp
pop_stack(h) ==
    LET sp == h.sp - 1
    IN IF ~InList(sp, t_stack_size)
       THEN [vm |-> Raise([h EXCEPT !.sp = sp], "IndexError"), val |-> 0]
       ELSE [vm |-> [h EXCEPT !.sp = sp], val |-> h.stack[ListIndex(sp, t_stack_size)]]

\* instr[i] evaluated, stored to, or jumped to; skipped once an exception
\* is pending
t_eval_part(h, instr, i) ==
    IF h.exc # "" THEN [vm |-> h, val |-> 0]
    ELSE IF ~HasPart(instr, i) THEN [vm |-> Raise(h, "IndexError"), val |-> 0]
    ELSE t_eval_arg(h, Part(instr, i))

t_set_part(h, instr, i, value) ==
    IF h.exc # "" THEN h
    ELSE IF ~HasPart(instr, i) THEN Raise(h, "IndexError")
    ELSE t_set_var(h, Part(instr, i), value)

\* preirony.py:405-406
t_OpLABEL(h, instr) == advance(h)

\* preirony.py:408-411
t_OpJMP(h, instr) == jump_part(h, instr, 1)

\* preirony.py:413-416
t_OpPARAM(h, instr) ==
    LET bind(p) == advance(t_set_part(p.vm, instr, 1, p.val))
    IN bind(pop_stack(h))

\* preirony.py:418-422
t_OpMOV(h, instr) ==
    LET store(s) == advance(t_set_part(s.vm, instr, 2, s.val))
    IN store(t_eval_part(h, instr, 1))

\* preirony.py:424-430
t_OpADD(h, instr) ==
    LET store(a, b) == advance(t_set_part(b.vm, instr, 3, a.val + b.val))
        second(a) == store(a, t_eval_part(a.vm, instr, 2))
    IN second(t_eval_part(h, instr, 1))

\* preirony.py:432-438
t_OpSUB(h, instr) ==
    LET store(a, b) == advance(t_set_part(b.vm, instr, 3, a.val - b.val))
        second(a) == store(a, t_eval_part(a.vm, instr, 2))
    IN second(t_eval_part(h, instr, 1))

\* preirony.py:440-447
t_OpRET(h, instr) ==
    LET back(stored, ret_addr) ==
            IF stored.exc # "" THEN stored ELSE [stored EXCEPT !.pc = ret_addr]
        leave(val, ra) ==
            IF ra.vm.exc # "" THEN ra.vm
            ELSE IF Len(ra.vm.scope_stack) = 0 THEN Raise(ra.vm, "IndexError")
            ELSE back(t_set_var([ra.vm EXCEPT !.scope_stack = Front(@)], "_retval", val.val),
                      ra.val)
        value(val) == IF val.vm.exc # "" THEN val.vm ELSE leave(val, pop_stack(val.vm))
    IN value(t_eval_part(h, instr, 1))

\* preirony.py:449-458  the threshold is eval_arg(instr[2])
t_OpJGE(h, instr) ==
    LET branch(val, threshold) ==
            IF threshold.vm.exc # "" THEN threshold.vm
            ELSE IF ~HasPart(instr, 3) THEN Raise(threshold.vm, "IndexError")
            ELSE IF val.val >= threshold.val THEN jump(threshold.vm, Part(instr, 3))
            ELSE advance(threshold.vm)
        second(val) == branch(val, t_eval_part(val.vm, instr, 2))
    IN second(t_eval_part(h, instr, 1))

\* preirony.py:460-463
t_OpPUSH(h, instr) ==
    LET put(val) == IF val.vm.exc # "" THEN val.vm ELSE advance(push_stack(val.vm, val.val))
    IN put(t_eval_part(h, instr, 1))

\* preirony.py:465-474
t_OpCALL(h, instr) ==
    LET enter(p2) ==
            jump_part(IF p2.exc # "" THEN p2
                      ELSE [p2 EXCEPT !.scope_stack = Append(@, EmptyScope)],
                      instr, 1)
        again(p1, arg) == enter(IF p1.exc # "" THEN p1 ELSE push_stack(p1, arg.val))
        first(arg) == again(IF arg.vm.exc # "" THEN arg.vm
                            ELSE push_stack(arg.vm, h.pc + 1), arg)
    IN first(pop_stack(h))

\* preirony.py:476-479
t_OpPRINT(h, instr) ==
    LET print(val) ==
            IF val.vm.exc # "" THEN val.vm
            ELSE advance([val.vm EXCEPT !.output = Append(@, ToString(val.val))])
    IN print(t_eval_part(h, instr, 1))

\* preirony.py:481-487  HALT and every unknown opcode (JGT among them)
\* leave the loop
t_Breaks(op) ==
    op \notin {"LABEL", "JMP", "PARAM", "MOV", "ADD", "SUB", "RET", "JGE",
               "PUSH", "CALL", "PRINT"}

\* preirony.py:405-479  the dispatch on the opcode
t_exec_instr(h, instr) ==
    LET op == instr[1]
    IN CASE op = "LABEL" -> t_OpLABEL(h, instr)
         [] op = "JMP" -> t_OpJMP(h, instr)
         [] op = "PARAM" -> t_OpPARAM(h, instr)
         [] op = "MOV" -> t_OpMOV(h, instr)
         [] op = "ADD" -> t_OpADD(h, instr)
         [] op = "SUB" -> t_OpSUB(h, instr)
         [] op = "RET" -> t_OpRET(h, instr)
         [] op = "JGE" -> t_OpJGE(h, instr)
         [] op = "PUSH" -> t_OpPUSH(h, instr)
         [] op = "CALL" -> t_OpCALL(h, instr)
         [] op = "PRINT" -> t_OpPRINT(h, instr)
         [] OTHER -> h

\* preirony.py:392-395  instr[0] of an empty tuple and instr[1] of ("LABEL",)
\* raise IndexError
t_LabelsRaise(code) ==
    \E i \in 1..Len(code) :
        \/ Len(code[i]) = 0
        \/ code[i][1] = "LABEL" /\ Len(code[i]) = 1

\* preirony.py:382-395  execute(code) up to the first test of its loop: pc,
\* sp, output and scope_stack are set anew; memory, registers, stack and
\* next_mem_addr are left as they are
t_execute_start(h, code) ==
    LET reset == [h EXCEPT !.pc = 0, !.sp = 0, !.output = <<>>,
                           !.scope_stack = <<EmptyScope>>, !.program = code,
                           !.labels = EmptyScope, !.exc = ""]
    IN IF t_LabelsRaise(code) THEN Raise(reset, "IndexError")
       ELSE [reset EXCEPT !.labels = LabelMap(code)]

\* preirony.py:399-489  one pass of the loop of execute: [vm, done]
t_run_step(h) ==
    IF h.pc >= Len(h.program) THEN [vm |-> h, done |-> TRUE]
    ELSE LET pass(f) ==
                 IF ~f.ok THEN [vm |-> Raise(h, "IndexError"), done |-> FALSE]
                 ELSE IF Len(f.parts) = 0 THEN [vm |-> Raise(h, "IndexError"), done |-> FALSE]
                 ELSE IF t_Breaks(f.parts[1]) THEN [vm |-> h, done |-> TRUE]
                 ELSE [vm |-> t_exec_instr(h, f.parts), done |-> FALSE]
         IN pass(fetch(h))

---------------------------------------------------------------------------
(* Assembly files of the shell (src/from_code_to_machine/pathos.py): comp  *)
(* stores str(instr) for every instruction, exec reads the lines back with *)
(* eval.  The strings of the model hold no quote and no backslash.         *)

\* repr of a str
py_repr(s) == "'" \o s \o "'"

\* str(instr) of a tuple of strings (pathos.py:463): ('JMP', 'main'), and
\* ('HALT',) for a tuple of one
str_instr(instr) ==
    IF Len(instr) = 0 THEN "()"
    ELSE IF Len(instr) = 1 THEN "(" \o py_repr(instr[1]) \o ",)"
    ELSE "(" \o join(", ", [i \in 1..Len(instr) |-> py_repr(instr[i])]) \o ")"

\* index of the first quote of s at or after i, 0 if there is none
RECURSIVE FindQuote(_, _)
FindQuote(s, i) ==
    IF i > Len(s) THEN 0 ELSE IF Char(s, i) = "'" THEN i ELSE FindQuote(s, i + 1)

\* index of the first character of s at or after i that is no blank
RECURSIVE SkipBlanks(_, _)
SkipBlanks(s, i) ==
    IF i <= Len(s) /\ Char(s, i) = " " THEN SkipBlanks(s, i + 1) ELSE i

Evaluated(value) == [value |-> value, exc |-> ""]
NotEvaluated == [value |-> <<>>, exc |-> "SyntaxError"]

\* the items of a tuple display from i on, i at the opening quote of an item.
\* A single parenthesised string is a str, not a tuple: execute reads its
\* first character as the opcode, so it stands here as the tuple of that
\* character
RECURSIVE eval_items(_, _, _)
eval_items(s, i, acc) ==
    IF i > Len(s) \/ Char(s, i) # "'" THEN NotEvaluated
    ELSE LET j == FindQuote(s, i + 1)
             item == SubSeq(s, i + 1, j - 1)
             k == SkipBlanks(s, j + 1)
             m == SkipBlanks(s, k + 1)
         IN IF j = 0 THEN NotEvaluated
            ELSE IF k = Len(s) /\ Char(s, k) = ")"
            THEN IF acc # <<>> THEN Evaluated(Append(acc, item))
                 ELSE IF item = "" THEN Evaluated(<<>>)
                 ELSE Evaluated(<<Char(item, 1)>>)
            ELSE IF k < Len(s) /\ Char(s, k) = ","
            THEN IF m = Len(s) /\ Char(s, m) = ")" THEN Evaluated(Append(acc, item))
                 ELSE eval_items(s, m, Append(acc, item))
            ELSE NotEvaluated

\* eval(line) (pathos.py:491) of a line that displays a tuple of strings:
\* [value, exc].  Every other line of the model (a source line, an empty
\* line) is no Python expression, or a name that is not defined, and eval
\* raises
eval_line(line) ==
    IF Len(line) < 2 \/ Char(line, 1) # "(" THEN NotEvaluated
    ELSE IF SkipBlanks(line, 2) = Len(line) /\ Char(line, Len(line)) = ")"
    THEN Evaluated(<<>>)
    ELSE eval_items(line, SkipBlanks(line, 2), <<>>)

\* code = [eval(line) for line in assembly_content]: [value, exc]
RECURSIVE eval_lines(_, _)
eval_lines(lines, acc) ==
    IF lines = <<>> THEN Evaluated(acc)
    ELSE LET next(e) == IF e.exc # "" THEN e
                        ELSE eval_lines(Tail(lines), Append(acc, e.value))
         IN next(eval_line(Head(lines)))

\* [str(instr) for instr in assembly_code]
str_all(code) == [i \in 1..Len(code) |-> str_instr(code[i])]

---------------------------------------------------------------------------
(* The commands comp and exec of the shell                                 *)
(* (src/from_code_to_machine/pathos.py:439-503), given by the user test    *)
(* in /users/test.  The shell calls parse, compile_all and execute of the  *)
(* teaching variant, which work on that module's global variables.         *)

\* what a command returned to the command loop: the lines of its text
Reply(kind, args, lines, exc) ==
    [Idle EXCEPT !.phase = "replied", !.kind = kind, !.source = args,
                 !.result = lines, !.exc = exc]

\* pathos.py:439-472  comp <source_file> <assembly_file>; disk_loc is the
\* number random.randint gives get_next_disk_location
cmd_comp(source_file, assembly_file, disk_loc) ==
    IF source_file \notin DOMAIN fs.files
    THEN /\ caller' = Reply("comp", <<source_file, assembly_file>>,
                            <<"Source file not found: " \o source_file>>, "")
         /\ UNCHANGED <<t_function_names, t_counter, fs>>
    ELSE IF assembly_file \in DOMAIN fs.files
    THEN /\ caller' = Reply("comp", <<source_file, assembly_file>>,
                            <<"Assembly file already exists: " \o assembly_file>>, "")
         /\ UNCHANGED <<t_function_names, t_counter, fs>>
    ELSE LET done(r) ==
               /\ t_function_names' = r.function_names
               /\ t_counter' = r.counter
               /\ IF r.exc # ""
                  THEN /\ fs' = fs
                       /\ caller' = Reply("comp", <<source_file, assembly_file>>,
                                          <<"Compilation error: " \o r.exc>>, r.exc)
                  ELSE /\ fs' = [fs EXCEPT
                                   !.files = (assembly_file :>
                                                File(str_all(r.code), disk_loc)) @@ @,
                                   !.next_disk_location = disk_loc + 1]
                       /\ caller' = Reply("comp", <<source_file, assembly_file>>,
                                          <<"Compiled " \o source_file \o " -> "
                                            \o assembly_file \o " (disk: "
                                            \o ToString(disk_loc) \o ")">>, "")
         IN done(t_compile_from(fs.files[source_file].content,
                                t_function_names, t_counter))

\* pathos.py:474-492  exec <assembly_file> up to the first test of the loop
\* of execute: the lines are read with eval and execute starts
cmd_exec(assembly_file) ==
    IF assembly_file \notin DOMAIN fs.files
    THEN /\ caller' = Reply("exec", assembly_file,
                            <<"Assembly file not found: " \o assembly_file>>, "")
         /\ hw' = hw
    ELSE LET started(h) ==
               /\ hw' = h
               /\ caller' = IF h.exc # ""
                            THEN Reply("exec", assembly_file,
                                       <<"Execution error: " \o h.exc>>, h.exc)
                            ELSE [Idle EXCEPT !.phase = "running", !.kind = "exec",
                                              !.source = assembly_file]
             read(code) ==
               IF code.exc # ""
               THEN /\ hw' = hw
                    /\ caller' = Reply("exec", assembly_file,
                                       <<"Execution error: " \o code.exc>>, code.exc)
               ELSE started(t_execute_start(hw, code.value))
         IN read(eval_lines(fs.files[assembly_file].content, <<>>))

\* pathos.py:493-503  what exec returns once execute has returned or raised
exec_reply(assembly_file, h) ==
    IF h.exc # ""
    THEN Reply("exec", assembly_file, <<"Execution error: " \o h.exc>>, h.exc)
    ELSE IF h.output # <<>>
    THEN Reply("exec", assembly_file, <<"Program output:">> \o h.output, "")
    ELSE Reply("exec", assembly_file, <<"Program executed (no output)">>, "")

\* what a finished command gave the user: the text and the exception behind
\* it
Answer(c) == [value |-> c.result, exc |-> c.exc]

\* preirony.py:399-489  one pass of the loop of execute under exec, and the
\* return to the shell when the loop is left or an exception is raised
T_Step ==
    /\ caller.phase = "running"
    /\ caller.kind = "exec"
    /\ LET after(r) ==
             /\ hw' = r.vm
             /\ caller' = IF r.vm.exc # "" \/ r.done
                          THEN exec_reply(caller.source, r.vm)
                          ELSE caller
             /\ hist' = IF r.vm.exc # "" \/ r.done
                        THEN Recorded(hist, caller.source, Answer(caller'))
                        ELSE hist
       IN after(t_run_step(hw))
    /\ UNCHANGED <<function_names, counter, vm, t_function_names, t_counter, fs, shell>>

---------------------------------------------------------------------------
(* SpecComp: the user test compiles the sample programs with comp          *)

MaxComps == 3     \* comp commands in a row

CompSources == {"fibonacci.s", "evenodd.s", "loops.s", "nofile.s"}
CompTargets == {"fib1.a", "fib2.a", "fibonacci.s"}

InitComp ==
    /\ function_names = {}
    /\ counter = 0
    /\ vm = VirtualHardware_init
    /\ t_function_names = {}
    /\ t_counter = 0
    /\ hw = hardware_init
    /\ fs = FileSystem_init
    /\ hist = NoHistory
    /\ shell = NoShell
    /\ caller = Idle

\* the log tells a comp that stored its assembly file from one that did not
CmdComp ==
    /\ Len(hist.log) < MaxComps
    /\ \E source_file \in CompSources, assembly_file \in CompTargets,
          disk_loc \in DiskLocations :
          /\ cmd_comp(source_file, assembly_file, disk_loc)
          /\ hist' = Logged(hist,
                            IF assembly_file \in DOMAIN fs'.files \ DOMAIN fs.files
                            THEN "comp" ELSE "comp failed",
                            <<source_file, assembly_file>>)
    /\ UNCHANGED <<function_names, counter, vm, hw, shell>>

NextComp == CmdComp

SpecComp == InitComp /\ [][NextComp]_vars

\* the comp commands that stored an assembly file, as [source, assembly]
Stored == {hist.log[i].input : i \in {k \in DOMAIN hist.log : hist.log[k].kind = "comp"}}

\* C10: comp compiles with a fresh compilation context: two assembly files
\* compiled from the same source file hold the same lines, whatever comp
\* commands came before
C10_CompSameSourceSameAssembly ==
    \A a \in Stored, b \in Stored :
        a[1] = b[1] => fs.files[a[2]].content = fs.files[b[2]].content

---------------------------------------------------------------------------
(* SpecExec: the user test runs assembly files with exec, again and again. *)
(* The shell starts after `comp fibonacci.s fib.a` and after reg.a was     *)
(* written with create.                                                    *)

MaxExecs == 3     \* exec commands in a row

\* an assembly file written by hand: it prints a register and increments it
reg_lines == << "('PRINT', 'tmp1')", "('ADD', 'tmp1', '1', 'tmp1')" >>

ExecTargets == {"fib.a", "reg.a", "fibonacci.s", "nofile.a"}

InitExec ==
    /\ function_names = {}
    /\ counter = 0
    /\ vm = VirtualHardware_init
    /\ hw = hardware_init
    /\ hist = NoHistory
    /\ shell = NoShell
    /\ caller = Idle
    /\ LET compiled(r) ==
             /\ t_function_names = r.function_names
             /\ t_counter = r.counter
             /\ fs = [FileSystem_init EXCEPT
                        !.files = ("fib.a" :> File(str_all(r.code), 10000))
                                  @@ ("reg.a" :> File(reg_lines, 10000)) @@ @]
       IN compiled(t_compile_from(fs_fib_source, {}, 0))

CmdExec ==
    /\ caller.phase # "running"
    /\ Len(hist.log) < MaxExecs
    /\ \E assembly_file \in ExecTargets :
          /\ cmd_exec(assembly_file)
          /\ hist' = Logged(hist, "exec", assembly_file)
    /\ UNCHANGED <<function_names, counter, vm, t_function_names, t_counter, fs, shell>>

NextExec == CmdExec \/ T_Step

SpecExec == InitExec /\ [][NextExec]_vars

\* C8: an exec of an assembly file does not depend on the execs before it:
\* it returns what the first exec of that file returned
C8_ExecIndependent ==
    (caller.kind = "exec" /\ caller.phase = "replied"
       /\ caller.source \in DOMAIN hist.first)
    => Answer(caller) = hist.first[caller.source]

\* an exec of a file whose first exec ran to its end does not fail
C8_LaterExecNeverFails ==
    (caller.kind = "exec" /\ caller.phase = "replied"
       /\ caller.source \in DOMAIN hist.first
       /\ hist.first[caller.source].exc = "")
    => caller.exc = ""

---------------------------------------------------------------------------
(* SpecParse: compile (irony.py:420-439) called once on a short source,    *)
(* every sequence of up to MaxLines lines drawn from ParseLineSet, and the *)
(* assembly it returns executed                                            *)

MaxLines == 3     \* lines of a source of SpecParse

\* one line of each statement form, a blank line, a comment, and two lines
\* that match no form
ParseLineSet ==
    { <<"def", "f", "n">>, <<"if", "n", "<", "2">>, <<"x", "=", "1">>,
      <<"return", "x">>, <<"end">>, <<>>, <<"#", "note">>,
      <<"oops">>, <<"x", "+", "1">> }

ParseSources == UNION {[1..n -> ParseLineSet] : n \in 0..MaxLines}

InitParse ==
    /\ function_names = {}
    /\ counter = 0
    /\ vm = VirtualHardware_init
    /\ t_function_names = {}
    /\ t_counter = 0
    /\ hw = hardware_init
    /\ fs = FileSystem_init
    /\ hist = NoHistory
    /\ shell = NoShell
    /\ \E s \in ParseSources : caller = [Idle EXCEPT !.source = s]

NextParse == Compile \/ Execute \/ Step

SpecParse == InitParse /\ [][NextParse]_vars

\* the line matches one of the seven statement forms
MatchesForm(l) ==
    \/ IsDefLine(l) \/ IsIfLine(l) \/ IsForLine(l) \/ IsReturnLine(l)
    \/ IsPrintLine(l) \/ IsAssignLine(l) \/ IsEndLine(l)

\* the lines parse goes through, and the places of those matching no form
Kept(source) == FilterLines(source)
Unmatched(lines) == {k \in 1..Len(lines) : ~MatchesForm(lines[k])}
FirstUnmatched(lines) == CHOOSE k \in Unmatched(lines) : \A j \in Unmatched(lines) : k <= j

\* parse gets as far as line k: the lines before it raise nothing
Reaches(lines, k) == ParseLines(ParseStart({}), SubSeq(lines, 1, k - 1)).exc = ""

\* C11: when parse reaches the first line that matches none of the seven
\* statement forms, compile fails with the SyntaxError that carries this
\* line; no assembly is returned and no later line is processed (a def
\* after it leaves no name in function_names)
C11_UnknownLineAborts ==
    (caller.kind = "compile" /\ Unmatched(Kept(caller.source)) # {}
       /\ Reaches(Kept(caller.source), FirstUnmatched(Kept(caller.source))))
    => LET lines == Kept(caller.source)
           k == FirstUnmatched(lines)
       IN /\ caller.phase = "raised"
          /\ caller.exc = "SyntaxError"
          /\ caller.message = lines[k]
          /\ caller.assembly = <<>>
          /\ function_names = {lines[j][2] : j \in {i \in 1..(k - 1) : IsDefLine(lines[i])}}

\* a source with a statement, then a line of no form, then a def was
\* compiled, and the call raised
C11_UnknownLineReached ==
    /\ caller.kind = "compile"
    /\ caller.phase = "raised"
    /\ caller.source = << <<"x", "=", "1">>, <<"oops">>, <<"def", "f", "n">> >>

---------------------------------------------------------------------------
(* SpecAsm: execute (irony.py:441-454) called on hand-written assembly,    *)
(* every program of up to MaxAsmLen lines drawn from AsmInstrs.  A program *)
(* that prints in an endless loop is followed for MaxOutput lines.         *)

MaxAsmLen == 3    \* lines of a program of SpecAsm
MaxOutput == 2    \* output lines after which a run is not followed further

\* jumps and calls to a label that exists (l) and to one that does not
\* (nowhere), the stack instructions, an opcode that is none of the thirteen
AsmInstrs ==
    { <<"LABEL", "l">>, <<"JMP", "l">>, <<"JMP", "nowhere">>,
      <<"PUSH", "1">>, <<"CALL", "l">>, <<"CALL", "nowhere">>,
      <<"PARAM", "x">>, <<"RET", "x">>,
      <<"JGE", "x", "0", "nowhere">>, <<"JGT", "x", "0", "nowhere">>,
      <<"PRINT", "x">>, <<"FOO", "x">>, <<"HALT">> }

AsmPrograms == UNION {[1..n -> AsmInstrs] : n \in 1..MaxAsmLen}

InitAsm == InitRuns

ExecuteAsm ==
    /\ caller.phase = "start"
    /\ \E code \in AsmPrograms :
          /\ execute(code, FALSE)
          /\ hist' = Logged(hist, "execute", code)
    /\ UNCHANGED <<function_names, counter, t_function_names, t_counter, hw, fs, shell>>

StepAsm ==
    /\ Len(vm.output) < MaxOutput
    /\ Step

NextAsm == ExecuteAsm \/ StepAsm

SpecAsm == InitAsm /\ [][NextAsm]_vars

\* the instruction at pc, <<>> when there is none
Current(v) ==
    IF v.pc < Len(v.program) /\ fetch(v).ok THEN fetch(v).parts ELSE <<>>

\* the instruction at pc is a JMP or a CALL, or a JGE or JGT whose
\* comparison holds, and its label has no LABEL line in the program
AtUnresolvedJump(v) ==
    LET parts == Current(v)
    IN /\ Len(parts) >= 2
       /\ \/ /\ parts[1] \in {"JMP", "CALL"}
             /\ parts[2] \notin DOMAIN v.labels
          \/ /\ parts[1] = "JGE" /\ Len(parts) >= 4
             /\ parts[4] \notin DOMAIN v.labels
             /\ IsLiteral(parts[3])
             /\ eval_arg(v, parts[2]).val >= LitValue(parts[3])
          \/ /\ parts[1] = "JGT" /\ Len(parts) >= 4
             /\ parts[4] \notin DOMAIN v.labels
             /\ eval_arg(v, parts[2]).val > eval_arg(v, parts[3]).val

\* C12: executing a JMP, a CALL, a taken JGE or a taken JGT whose label has
\* no LABEL line ends the call with an exception: the program counter stays
\* on the instruction, nothing is printed and no output is returned
C12_UnresolvedLabelFatal ==
    [][(caller.phase = "running" /\ AtUnresolvedJump(vm))
       => /\ caller'.phase = "raised"
          /\ caller'.exc # ""
          /\ caller'.output = <<>>
          /\ vm'.pc = vm.pc
          /\ vm'.output = vm.output]_vars

\* a run was ended by the KeyError of a taken JGT to a missing label
C12_UnresolvedJumpTaken ==
    /\ caller.phase = "raised"
    /\ caller.exc = "KeyError"
    /\ Current(vm) = <<"JGT", "x", "0", "nowhere">>

\* C13: a PUSH executed when the stack holds stack_size entries ends the
\* call with the stack-overflow error and leaves the stack pointer and all
\* stack entries as they were
C13_PushAtCapacityFails ==
    [][(/\ caller.phase = "running"
        /\ Len(Current(vm)) >= 2
        /\ Current(vm)[1] = "PUSH"
        /\ vm.sp = stack_size)
       => /\ caller'.phase = "raised"
          /\ caller'.exc = "RuntimeError: Stack overflow"
          /\ caller'.output = <<>>
          /\ vm'.sp = vm.sp
          /\ vm'.stack = vm.stack]_vars

\* a run was ended by a PUSH onto a stack of stack_size entries
C13_PushOverflowed ==
    /\ caller.phase = "raised"
    /\ caller.exc = "RuntimeError: Stack overflow"
    /\ Current(vm) = <<"PUSH", "1">>
    /\ vm.sp = stack_size
    /\ \A i \in 0..(stack_size - 1) : vm.stack[i] = 1

\* C14: a PARAM, RET or CALL executed with stack pointer 0 ends the call
\* with the stack-underflow error and no output, and the stack pointer is
\* within 0 .. stack_size before and after every step
C14_PopOnEmptyFatal ==
    [][/\ vm.sp \in 0..stack_size
       /\ vm'.sp \in 0..stack_size
       /\ (/\ caller.phase = "running"
           /\ Len(Current(vm)) >= 2
           /\ Current(vm)[1] \in {"PARAM", "RET", "CALL"}
           /\ vm.sp = 0)
          => /\ caller'.phase = "raised"
             /\ caller'.exc = "RuntimeError: Stack underflow"
             /\ caller'.output = <<>>
             /\ vm'.sp = 0
             /\ vm'.pc = vm.pc]_vars

\* a run was ended by a RET that found the stack empty after a PARAM had
\* taken the only entry
C14_PoppedEmpty ==
    /\ caller.phase = "raised"
    /\ caller.exc = "RuntimeError: Stack underflow"
    /\ vm.program = << <<"PUSH", "1">>, <<"PARAM", "x">>, <<"RET", "x">> >>
    /\ vm.pc = 2
    /\ vm.sp = 0

\* the thirteen opcodes of the dispatch of run (irony.py:295-409)
KnownOpcodes ==
    {"LABEL", "JMP", "PARAM", "MOV", "ADD", "SUB", "RET", "JGE", "JGT",
     "PUSH", "CALL", "PRINT", "HALT"}

\* C15: execute does not return an output when the run stopped at an
\* instruction whose opcode is none of the thirteen: such a call ends with an
\* error
C15_UnknownOpcodeFatal ==
    (/\ caller.kind = "execute"
     /\ caller.phase \in {"returned", "raised"}
     /\ Current(vm) # <<>>
     /\ Current(vm)[1] \notin KnownOpcodes)
    => (caller.phase = "raised" /\ caller.exc # "")

\* C16: a source in which every line is blank or a comment compiles to
\* JMP main, LABEL main, HALT, and the execution of that assembly prints
\* nothing, raises nothing and returns the empty output
C16_EmptyProgram ==
    (/\ caller.phase # "start"
     /\ \A i \in 1..Len(caller.source) :
           caller.source[i] = <<>> \/ caller.source[i][1] = "#")
    => /\ caller.assembly = << <<"JMP", "main">>, <<"LABEL", "main">>, <<"HALT">> >>
       /\ caller.phase \in {"compiled", "running", "returned"}
       /\ caller.exc = ""
       /\ (caller.kind = "execute" => vm.output = <<>>)
       /\ (caller.phase = "returned"
             => (caller.output = <<>> /\ Current(vm) = <<"HALT">>))

\* the assembly of a source of a blank line and two comments was executed
\* and execute returned
C16_EmptyProgramRan ==
    /\ caller.source = << <<"#", "note">>, <<>>, <<"#", "note">> >>
    /\ caller.kind = "execute"
    /\ caller.phase = "returned"

---------------------------------------------------------------------------
(* SpecDebug: execute (irony.py:441-454) called on an assembly with or     *)
(* without debug, then on the same assembly with the other value of debug  *)

MaxTrace == 40    \* trace lines after which a run is not followed further

\* the programs of SpecRuns, the loops of the test program, and every
\* hand-written program of one or two lines of AsmInstrs
DebugPrograms ==
    RunPrograms \cup {compile_from(for_loop_source, {}, 0).assembly}
    \cup UNION {[1..n -> AsmInstrs] : n \in 1..2}

InitDebug == InitRuns

ExecuteDebug ==
    /\ caller.phase = "start"
    /\ \E code \in DebugPrograms, debug \in BOOLEAN :
          /\ execute(code, debug)
          /\ hist' = Logged(hist, "execute", code)
    /\ UNCHANGED <<function_names, counter, t_function_names, t_counter, hw, fs, shell>>

ExecuteOtherDebug ==
    /\ caller.phase \in {"returned", "raised"}
    /\ Len(hist.log) = 1
    /\ execute(caller.assembly, ~caller.debug)
    /\ hist' = Logged(hist, "execute", caller.assembly)
    /\ UNCHANGED <<function_names, counter, t_function_names, t_counter, hw, fs, shell>>

\* a program that loops for ever prints its trace for ever: a run is
\* followed for MaxTrace lines of it
StepDebug ==
    /\ Len(vm.output) < MaxOutput
    /\ Len(caller.stdout) < MaxTrace
    /\ Step

NextDebug == ExecuteDebug \/ ExecuteOtherDebug \/ StepDebug

SpecDebug == InitDebug /\ [][NextDebug]_vars

\* C17: execute with debug set and execute without it return the same
\* output for the same assembly, or raise the same exception; nothing is
\* printed without debug, and no line of the trace is among the lines of the
\* output
C17_DebugNoInfluence ==
    /\ (caller.kind = "execute" /\ Ended)
          => Outcome(caller) = hist.first[caller.assembly]
    /\ caller.kind = "execute"
          => /\ \A i \in 1..Len(vm.output), j \in 1..Len(caller.stdout) :
                   vm.output[i] # caller.stdout[j]
             /\ ~caller.debug => caller.stdout = <<>>

\* the program with a call was executed without debug and then with it;
\* the second call returned the output, having printed its trace
C17_RanWithAndWithoutDebug ==
    /\ caller.kind = "execute" /\ caller.phase = "returned"
    /\ Len(hist.log) = 2
    /\ caller.debug
    /\ caller.assembly = compile_from(call_source, {}, 0).assembly
    /\ caller.output = <<"4">>
    /\ Len(caller.stdout) > Len(caller.assembly)

---------------------------------------------------------------------------
(* SpecTemps: execute (irony.py:441-454) called on a program that writes   *)
(* one temp, reads and writes another and reads the first again, for every *)
(* pair of temps up to tmp<MaxTemp>                                        *)

TempProgram(a, b) ==
    << <<"MOV", "5", TempName(a)>>, <<"PRINT", TempName(b)>>,
       <<"MOV", "9", TempName(b)>>, <<"PRINT", TempName(a)>> >>

InitTemps == InitRuns

ExecuteTemps ==
    /\ caller.phase = "start"
    /\ \E a \in 0..MaxTemp, b \in 0..MaxTemp :
          /\ execute(TempProgram(a, b), FALSE)
          /\ hist' = Logged(hist, "execute", TempProgram(a, b))
    /\ UNCHANGED <<function_names, counter, t_function_names, t_counter, hw, fs, shell>>

NextTemps == ExecuteTemps \/ Step

SpecTemps == InitTemps /\ [][NextTemps]_vars

\* C18: tmpN is register N mod 16.  In the program that writes 5 to tmpA,
\* prints tmpB, writes 9 to tmpB and prints tmpA, the first line printed is
\* 5 and the second 9 exactly when A and B are equal modulo 16 (tmp17 and
\* tmp1 among them), 0 and 5 otherwise; the values are in registers A mod 16
\* and B mod 16, and no run raises an exception
C18_TempRegisterWraps ==
    \A a \in 0..MaxTemp, b \in 0..MaxTemp :
       (/\ caller.kind = "execute"
        /\ caller.assembly[1][3] = TempName(a)
        /\ caller.assembly[2][2] = TempName(b)
        /\ caller.assembly = TempProgram(a, b))
       => /\ caller.phase # "raised" /\ vm.exc = ""
          /\ vm.pc >= 1 => vm.registers[a % 16] \in {5, 9}
          /\ vm.pc >= 3 => vm.registers[b % 16] = 9
          /\ caller.phase = "returned" =>
                caller.output = IF a % 16 = b % 16 THEN <<"5", "9">> ELSE <<"0", "5">>

\* the write to tmp17 was read through tmp1, and the write to tmp1 through
\* tmp17
C18_Tmp17ReadAsTmp1 ==
    /\ caller.phase = "returned"
    /\ caller.assembly = TempProgram(17, 1)
    /\ caller.output = <<"5", "9">>
    /\ vm.registers[1] = 9

---------------------------------------------------------------------------
(* The calling convention, in the runs of Spec (the recursive fib, the     *)
(* mutually recursive is_even and is_odd)                                  *)

\* C19: CALL leaves the return address pc+1 on the stack with the argument
\* on top of it and a new empty scope, so until the callee's PARAM the stack
\* is one entry higher than at the CALL; PARAM gives its variable the
\* argument that was pushed; and the RET of the call continues at the
\* instruction after the CALL with the stack pointer as it was before the
\* PUSH of the argument, at every depth of nesting
C19_CallingConvention ==
    /\ \A i \in 1..Len(hist.frames) :
          hist.frames[i].param # <<>> => hist.frames[i].param = <<hist.frames[i].arg>>
    /\ (caller.phase = "running" /\ hist.frames # <<>>
                                   /\ Last(hist.frames).param = <<>>)
          => /\ vm.sp = Last(hist.frames).sp + 1
             /\ vm.stack[vm.sp - 1] = Last(hist.frames).arg
             /\ vm.stack[vm.sp - 2] = Last(hist.frames).pc + 1
             /\ Last(vm.scope_stack) = EmptyScope
    /\ hist.ret # <<>>
          => /\ hist.ret[1].param = <<hist.ret[1].arg>>
             /\ vm.pc = hist.ret[1].pc + 1
             /\ vm.sp = hist.ret[1].sp - 1

\* a call made from within two other calls has returned to its caller
C19_NestedCallReturned ==
    /\ hist.ret # <<>>
    /\ Len(hist.frames) >= 2
    /\ hist.ret[1].param = <<hist.ret[1].arg>>
    /\ hist.ret[1].arg >= 1
    /\ vm.pc = hist.ret[1].pc + 1
    /\ vm.sp = hist.ret[1].sp - 1
    /\ vm.sp >= 2

---------------------------------------------------------------------------
(* The scope stack, in the runs of SpecAsm                                 *)

\* C20: the scope stack is never empty, the global scope is never popped,
\* and while a run goes on the scope stack holds one scope for each CALL
\* that has not returned, and the global scope
C20_ScopeDepth ==
    /\ Len(vm.scope_stack) >= 1
    /\ caller.phase = "running" => Len(vm.scope_stack) = Len(hist.frames) + 1

---------------------------------------------------------------------------
(* The main block, in the compilations of SpecParse                        *)

\* the loop over the top-level items with every statement that is no def
\* handed to compile_stmt, whatever its type
RECURSIVE EveryStatementCompiled(_, _, _)
EveryStatementCompiled(ast, st, fnames) ==
    IF ast = <<>> \/ st.exc # "" THEN st
    ELSE LET item == Head(ast)
             function(f) == [st EXCEPT !.code = @ \o f.output,
                                       !.counter = f.counter, !.exc = f.exc]
             statement(m) == [st EXCEPT !.main_code = m.output,
                                        !.counter = m.counter, !.exc = m.exc]
         IN EveryStatementCompiled(Tail(ast),
                IF item.type = "def"
                THEN function(compile_fn(item, st.counter, fnames))
                ELSE statement(compile_stmt(item, st.main_code, st.counter, fnames)),
                fnames)

\* the assembly in which no top-level statement is missing
FullAssembly(source) ==
    LET built(p) ==
          assemble(EveryStatementCompiled(p.ast,
                      [code |-> <<>>, main_code |-> <<>>, counter |-> 0, exc |-> ""],
                      p.function_names))
    IN built(parse(source, {}))

\* C21: the assembly compile returns holds, after LABEL main, the code of
\* every top-level statement that is no def, in source order: assign,
\* print, for, if and return alike
C21_EveryTopLevelStatementCompiled ==
    (caller.kind = "compile" /\ caller.phase = "compiled")
    => LET full(f) == f.exc = "" => caller.assembly = f.code
       IN full(FullAssembly(caller.source))

\* the names of the top-level defs of the source, in source order
RECURSIVE DefNames(_)
DefNames(ast) ==
    IF ast = <<>> THEN <<>>
    ELSE IF Head(ast).type = "def" THEN <<Head(ast).name>> \o DefNames(Tail(ast))
    ELSE DefNames(Tail(ast))

\* the names of the LABEL lines of a piece of assembly that are functions
RECURSIVE FunctionLabels(_, _)
FunctionLabels(code, fnames) ==
    IF code = <<>> THEN <<>>
    ELSE IF Head(code)[1] = "LABEL" /\ Head(code)[2] \in fnames
    THEN <<Head(code)[2]>> \o FunctionLabels(Tail(code), fnames)
    ELSE FunctionLabels(Tail(code), fnames)

\* the assembly is JMP main, the functions in source order, LABEL main, a
\* main block without function code, HALT
LaidOut(assembly, source, fnames) ==
    LET mains == {k \in 1..Len(assembly) : assembly[k] = <<"LABEL", "main">>}
        at(k) ==
          /\ FunctionLabels(SubSeq(assembly, 1, k - 1), fnames)
                = DefNames(parse(source, {}).ast)
          /\ \A j \in 2..(k - 1) : assembly[j] # <<"HALT">>
          /\ \A j \in (k + 1)..Len(assembly) :
                /\ assembly[j][1] # "PARAM"
                /\ ~(assembly[j][1] = "LABEL" /\ assembly[j][2] \in fnames)
    IN /\ Len(assembly) >= 3
       /\ assembly[1] = <<"JMP", "main">>
       /\ assembly[Len(assembly)] = <<"HALT">>
       /\ Cardinality(mains) = 1
       /\ \A k \in mains : at(k)

\* C22: the assembly compile returns is JMP main, the code of the top-level
\* defs in source order, LABEL main, the main block, HALT; and the first
\* instruction executed takes the run to LABEL main, past every function
C22_AssemblyLayout ==
    [][/\ (caller.phase = "compiled" /\ caller.kind = "compile")
             => LaidOut(caller.assembly, caller.source, function_names)
       /\ (caller.phase = "compiled" /\ caller'.phase = "running")
             => /\ vm'.pc = 0
                /\ Current(vm') = <<"JMP", "main">>
       /\ (caller.kind = "execute" /\ caller.started)
             => /\ caller'.phase = "running"
                /\ Current(vm') = <<"LABEL", "main">>
                /\ vm'.output = <<>> /\ vm'.sp = 0
                /\ vm'.scope_stack = <<EmptyScope>>]_vars

\* a source with a function was compiled and the first instruction of its
\* assembly executed: the run is at LABEL main, behind the function's code
C22_JumpedToMain ==
    /\ caller.kind = "execute" /\ caller.phase = "running" /\ ~caller.started
    /\ caller.source = << <<"def", "f", "n">>, <<"end">>, <<"x", "=", "1">> >>
    /\ caller.assembly = << <<"JMP", "main">>, <<"LABEL", "f">>, <<"PARAM", "n">>,
                            <<"LABEL", "main">>, <<"MOV", "1", "x">>, <<"HALT">> >>
    /\ vm.pc = 3

---------------------------------------------------------------------------
(* SpecLower: compile (irony.py:420-439) and execute (irony.py:441-454)    *)
(* called on small programs around one expression, one if or one for,      *)
(* their numbers taken from 0 .. MaxVal                                     *)

MaxVal == 2       \* largest number written in a source of SpecLower

Vals == 0..MaxVal

\* the expressions with one or two operators
ExprTexts ==
    { <<"a", "+", "b">>, <<"a", "-", "b">>,
      <<"a", "+", "b", "+", "c">>, <<"a", "-", "b", "+", "c">>,
      <<"a", "+", "b", "-", "c">> }

\* r = expr computed from a, b and c, and printed
ExprSource(expr, va, vb, vc) ==
    << <<"a", "=", ToString(va)>>, <<"b", "=", ToString(vb)>>,
       <<"c", "=", ToString(vc)>>, <<"r", "=">> \o expr, <<"print", "r">> >>

\* f defined before the statement that calls it, and after it
double_def == << <<"def", "f", "n">>, <<"return", "n", "+", "n">>, <<"end">> >>

CallSource(k, early) ==
    LET use == << <<"r", "=", "f", ToString(k), "-", "1">>, <<"print", "r">> >>
    IN IF early THEN double_def \o use ELSE use \o double_def

\* the right-hand sides of the condition of an if
IfRights == { <<"0">>, <<"2">>, <<"5">>, <<"x">>, <<"x", "+", "1">> }

\* f returns 1 from the body of `if x < e` and 0 behind it
IfSource(k, e) ==
    << <<"def", "f", "x">>, <<"if", "x", "<">> \o e, <<"return", "1">>, <<"end">>,
       <<"return", "0">>, <<"end">>,
       <<"y", "=", "f", ToString(k)>>, <<"print", "y">> >>

\* the loop prints its variable, which is printed once more after it
ForSource(a, b) ==
    << <<"for", "v", "from", ToString(a), "to", ToString(b)>>, <<"print", "v">>,
       <<"end">>, <<"print", "v">> >>

\* the variable `name` is set to 5, an addition is compiled (into the first
\* temp of the compile), and the variable is printed
NamedSource(name, k) ==
    << <<name, "=", "5">>, <<"x", "=", "1", "+", ToString(k)>>, <<"print", name>> >>

\* f n = n + f (n - 1) above 1, with n - 0 held in a temp across the call
SumSource(k) ==
    << <<"def", "f", "n">>, <<"if", "n", "<", "2">>, <<"return", "n">>, <<"end">>,
       <<"return", "n", "-", "0", "+", "f", "n", "-", "1">>, <<"end">>,
       <<"y", "=", "f", ToString(k)>>, <<"print", "y">> >>

\* a loop from 1 to 3 whose body is m additions, each into a temp of its own
BusySource(m) ==
    << <<"for", "i", "from", "1", "to", "3">> >>
       \o [k \in 1..m |-> <<"x", "=", "0", "+", "0">>]
       \o << <<"end">>, <<"print", "i">> >>

\* f has no return statement; g, when it is there, is defined behind f
FallSource(with_g) ==
    << <<"def", "f", "n">>, <<"x", "=", "n">>, <<"end">> >>
       \o (IF with_g THEN << <<"def", "g", "n">>, <<"return", "n">>, <<"end">> >> ELSE <<>>)
       \o << <<"y", "=", "f", "1">>, <<"print", "y">> >>

LowerSources ==
    {ExprSource(e, va, vb, vc) : e \in ExprTexts, va \in Vals, vb \in Vals, vc \in Vals}
    \cup {CallSource(k, early) : k \in Vals, early \in BOOLEAN}
    \cup {IfSource(k, e) : k \in 0..(MaxVal + 2), e \in IfRights}
    \cup {ForSource(a, b) : a \in 0..(MaxVal + 1), b \in 0..(MaxVal + 1)}
    \cup {NamedSource(name, k) : name \in {"t", "tmp1"}, k \in Vals}
    \cup {SumSource(k) : k \in 0..(MaxVal + 1)}
    \cup {BusySource(m) : m \in {1, num_registers}}
    \cup {FallSource(with_g) : with_g \in BOOLEAN}

InitLower ==
    /\ function_names = {}
    /\ counter = 0
    /\ vm = VirtualHardware_init
    /\ t_function_names = {}
    /\ t_counter = 0
    /\ hw = hardware_init
    /\ fs = FileSystem_init
    /\ hist = NoHistory
    /\ shell = NoShell
    /\ \E s \in LowerSources : caller = [Idle EXCEPT !.source = s]

NextLower == Compile \/ Execute \/ Step

SpecLower == InitLower /\ [][NextLower]_vars

\* C23: an expression with "+" in it compiles, whether it has one "+" or
\* more: the statement r = a + b + c becomes ADD b c t1, ADD a t1 t2,
\* MOV t2 r, and the program prints a + (b + c)
C23_PlusSplitsAtFirst ==
    \A e \in ExprTexts, va \in Vals, vb \in Vals, vc \in Vals :
       (/\ caller.kind # ""
        /\ Count(e, "+") >= 1
        /\ caller.source = ExprSource(e, va, vb, vc))
       => /\ caller.phase # "raised"
          /\ e = <<"a", "+", "b", "+", "c">>
               => /\ SubSeq(caller.assembly, 6, 8)
                       = << <<"ADD", "b", "c", "tmp1">>, <<"ADD", "a", "tmp1", "tmp2">>,
                            <<"MOV", "tmp2", "r">> >>
                  /\ caller.phase = "returned"
                       => caller.output = <<ToString(va + (vb + vc))>>

\* C24 as stated: r = a - b + c computes a - (b + c)
C24_MinusOfSum ==
    \A va \in Vals, vb \in Vals, vc \in Vals :
       (/\ caller.phase = "returned"
        /\ caller.source = ExprSource(<<"a", "-", "b", "+", "c">>, va, vb, vc))
       => caller.output = <<ToString(va - (vb + vc))>>

\* C24, amended: the text a - b + c is split at its "+", into a - b and c:
\* r = a - b + c becomes SUB a b t1, ADD t1 c t2, MOV t2 r, and the program
\* prints (a - b) + c
C24_DifferencePlus ==
    \A va \in Vals, vb \in Vals, vc \in Vals :
       (/\ caller.kind # ""
        /\ caller.source = ExprSource(<<"a", "-", "b", "+", "c">>, va, vb, vc))
       => /\ caller.phase # "raised"
          /\ SubSeq(caller.assembly, 6, 8)
                = << <<"SUB", "a", "b", "tmp1">>, <<"ADD", "tmp1", "c", "tmp2">>,
                     <<"MOV", "tmp2", "r">> >>
          /\ caller.phase = "returned" => caller.output = <<ToString((va - vb) + vc)>>

\* with a = 2, b = 1, c = 1 the program printed 2, not 0
C24_DifferencePlusPrinted ==
    /\ caller.phase = "returned"
    /\ caller.source = ExprSource(<<"a", "-", "b", "+", "c">>, 2, 1, 1)
    /\ caller.output = <<"2">>

\* C25: the call rule comes before operator splitting: r = f k - 1 is
\* compiled as the code of k - 1, PUSH of its temp, CALL f, MOV _retval into a
\* fresh temp, and prints f(k - 1) = 2 * (k - 1), whether f is defined
\* before or after the statement that calls it
C25_CallBeforeOperators ==
    \A k \in Vals, early \in BOOLEAN :
       (caller.kind # "" /\ caller.source = CallSource(k, early))
       => LET n == IF early THEN 2 ELSE 1
              arg == TempName(n)
              res == TempName(n + 1)
          IN /\ caller.phase # "raised"
             /\ function_names = {"f"}
             /\ SubSeq(caller.assembly, 7, 11)
                   = << <<"SUB", ToString(k), "1", arg>>, <<"PUSH", arg>>,
                        <<"CALL", "f">>, <<"MOV", "_retval", res>>,
                        <<"MOV", res, "r">> >>
             /\ caller.phase = "returned" => caller.output = <<ToString(2 * (k - 1))>>

\* f 2 - 1, with f defined after the call, printed 2 = f(1), not 3 = f(2) - 1
C25_LaterFunctionCalled ==
    /\ caller.phase = "returned"
    /\ caller.source = CallSource(2, FALSE)
    /\ caller.output = <<"2">>

\* C26: `if x < e` is compiled to JGE x 2 L_end, the body, LABEL L_end, with
\* the literal 2 as threshold whatever e is, and at run time the body is
\* executed exactly when the value of x is less than 2
C26_ThresholdIsTwo ==
    \A k \in 0..(MaxVal + 2), e \in IfRights :
       (caller.kind # "" /\ caller.source = IfSource(k, e))
       => /\ caller.phase # "raised"
          /\ SubSeq(caller.assembly, 3, 7)
                = << <<"PARAM", "x">>, <<"JGE", "x", "2", "tmp1_end">>,
                     <<"RET", "1">>, <<"LABEL", "tmp1_end">>, <<"RET", "0">> >>
          /\ caller.phase = "returned"
                => caller.output = <<IF k < 2 THEN "1" ELSE "0">>

\* `if x < 5` with x = 3 skipped its body, and `if x < 0` with x = 1 ran it
C26_ComparedWithTwo ==
    /\ caller.phase = "returned"
    /\ \/ caller.source = IfSource(3, <<"5">>) /\ caller.output = <<"0">>
       \/ caller.source = IfSource(1, <<"0">>) /\ caller.output = <<"1">>

\* C27: both sides of the condition of an if are compiled: the instructions
\* of the right-hand side x + 1 of `if x < x + 1` (an ADD of x and 1 into a
\* temp) are in the assembly, before the JGE
C27_BothSidesCompiled ==
    \A k \in 0..(MaxVal + 2) :
       (/\ caller.kind # ""
        /\ caller.phase # "raised"
        /\ caller.source = IfSource(k, <<"x", "+", "1">>))
       => \E i \in 1..Len(caller.assembly), j \in 1..Len(caller.assembly) :
             /\ i < j
             /\ Len(caller.assembly[i]) = 4
             /\ SubSeq(caller.assembly[i], 1, 3) = <<"ADD", "x", "1">>
             /\ caller.assembly[j][1] = "JGE"

\* what `for v from a to b / print v / end / print v` prints: a, a+1, ..., b
\* from the body and then the value of v behind the loop
ForPrints(a, b) ==
    LET n == IF a > b THEN 0 ELSE b - a + 1
    IN [i \in 1..n |-> ToString(a + i - 1)] \o <<ToString(IF a <= b THEN b + 1 ELSE a)>>

ThresholdKinds == {"literal", "temp", "variable"}

\* x = a, the threshold b in y and in tmp1, then the jump over PRINT 0
JumpProgram(op, a, kind, b) ==
    LET threshold == CASE kind = "literal" -> ToString(b)
                       [] kind = "temp" -> "tmp1"
                       [] kind = "variable" -> "y"
    IN << <<"MOV", ToString(a), "x">>, <<"MOV", ToString(b), "y">>,
          <<"MOV", ToString(b), "tmp1">>, <<op, "x", threshold, "L">>,
          <<"PRINT", "0">>, <<"LABEL", "L">>, <<"PRINT", "1">> >>

InitJumps == InitRuns

ExecuteJumps ==
    /\ caller.phase = "start"
    /\ \E op \in {"JGE", "JGT"}, a \in Vals, kind \in ThresholdKinds, b \in Vals :
          /\ execute(JumpProgram(op, a, kind, b), FALSE)
          /\ hist' = Logged(hist, "execute", JumpProgram(op, a, kind, b))
    /\ UNCHANGED <<function_names, counter, t_function_names, t_counter, hw, fs, shell>>

NextJumps == ExecuteJumps \/ Step

SpecJumps == InitJumps /\ [][NextJumps]_vars

\* C29: JGE and JGT resolve their threshold like their first operand: with
\* the threshold a literal, a temp or an ordinary variable holding b, the run
\* does not raise, and the jump over PRINT 0 is taken exactly when
\* a >= b (JGE) or a > b (JGT)
C29_ThresholdResolved ==
    \A op \in {"JGE", "JGT"}, a \in Vals, kind \in ThresholdKinds, b \in Vals :
       (caller.kind = "execute" /\ caller.assembly = JumpProgram(op, a, kind, b))
       => /\ caller.phase # "raised"
          /\ caller.phase = "returned"
                => LET taken == IF op = "JGE" THEN a >= b ELSE a > b
                   IN caller.output = IF taken THEN <<"1">> ELSE <<"0", "1">>

\* the bindings of the scopes on the stack: <<scope index, name>>
Bindings(v) ==
    UNION {{<<i, w>> : w \in DOMAIN v.scope_stack[i]} : i \in 1..Len(v.scope_stack)}

AddressOf(v, b) == v.scope_stack[b[1]][b[2]]

\* C30: addresses are assigned on first reference in the active scope, in
\* increasing order, and never reclaimed during a run: in every step of a run
\* the next free address does not decrease, a binding that stays on the scope
\* stack keeps its address, a new binding gets an address that was free (at
\* or above the old next free address), and afterwards the bindings on the
\* stack have distinct addresses below the next free address
C30_AddressesNeverReused ==
    [][(caller.phase = "running" /\ caller'.phase \in {"running", "returned", "raised"})
       => LET old == Bindings(vm)
              new == Bindings(vm')
          IN /\ vm'.next_mem_addr >= vm.next_mem_addr
             /\ \A b \in old \cap new : AddressOf(vm', b) = AddressOf(vm, b)
             /\ \A b \in new \ old : AddressOf(vm', b) >= vm.next_mem_addr
             /\ \A b \in new : AddressOf(vm', b) \in 0..(vm'.next_mem_addr - 1)
             /\ \A b \in new, c \in new :
                   AddressOf(vm', b) = AddressOf(vm', c) => b = c]_vars

\* two activations on the scope stack bind the same name at different addresses
C30_TwoActivationsBound ==
    /\ caller.phase = "running"
    /\ \E b \in Bindings(vm), c \in Bindings(vm) :
          /\ b[1] > 1 /\ c[1] > b[1] /\ b[2] = c[2]
          /\ AddressOf(vm, b) < AddressOf(vm, c)

\* the number of blocks open after the lines, or -1 once an end had no open block
RECURSIVE OpenBlocks(_, _)
OpenBlocks(lines, depth) ==
    IF lines = <<>> \/ depth < 0 THEN depth
    ELSE LET l == Head(lines)
         IN OpenBlocks(Tail(lines),
                       IF IsDefLine(l) \/ IsIfLine(l) \/ IsForLine(l) THEN depth + 1
                       ELSE IF IsEndLine(l) THEN depth - 1
                       ELSE depth)

Balanced(lines) == OpenBlocks(lines, 0) = 0

\* C31: a source whose blocks are not balanced (an end with no open block,
\* or a block left open at the end of input) is rejected with a ParseError
\* (Python's SyntaxError, the exception parse raises): no AST is returned and
\* no other exception is raised
C31_UnbalancedRejected ==
    (/\ caller.kind # ""
     /\ Unmatched(Kept(caller.source)) = {}
     /\ ~Balanced(Kept(caller.source)))
    => caller.phase = "raised" /\ caller.exc = "SyntaxError"

\* C32: the temps of a compile differ from every variable written in the
\* source, so a write to a temp never overwrites a source variable: the
\* variable set to 5 still holds 5 when it is printed behind the addition
C32_TempsCollisionFree ==
    \A name \in {"t", "tmp1"}, k \in Vals :
       (caller.kind # "" /\ caller.source = NamedSource(name, k))
       => /\ \A i \in 1..Len(caller.assembly) :
                caller.assembly[i][1] = "ADD" => caller.assembly[i][4] # name
          /\ caller.phase = "returned" => caller.output = <<"5">>

\* ------------------------------------------------------------------------
\* SpecRec: a recursive function that never reaches a base case (it has
\* none), with 1..MaxLocals variables in each activation.  run is a loop
\* that executes one instruction after the other until it halts or
\* raises: once execute was called, each pass of the loop that can be taken
\* is taken (weak fairness of Step).  Whether the caller compiles and
\* executes at all is the caller's choice.

MaxLocals == 3

\* names of ordinary variables: v1, v2, ...
TempFreeName(i) == "v" \o ToString(i)

\* f binds its parameter v1, copies it through v2 .. vj and calls f again
RecBody(j) == [i \in 1..(j - 1) |-> <<TempFreeName(i + 1), "=", TempFreeName(i)>>]

RecSource(j) ==
    << <<"def", "f", TempFreeName(1)>> >> \o RecBody(j)
       \o << <<"return", "f", TempFreeName(j)>>, <<"end">>, <<"x", "=", "f", "1">> >>

InitRec ==
    /\ function_names = {}
    /\ counter = 0
    /\ vm = VirtualHardware_init
    /\ t_function_names = {}
    /\ t_counter = 0
    /\ hw = hardware_init
    /\ fs = FileSystem_init
    /\ hist = NoHistory
    /\ shell = NoShell
    /\ \E j \in 1..MaxLocals : caller = [Idle EXCEPT !.source = RecSource(j)]

NextRec == Compile \/ Execute \/ Step

SpecRec == InitRec /\ [][NextRec]_vars /\ WF_vars(Step)

\* the calls that are pending: the scopes above the global one
NestedCalls(v) == Len(v.scope_stack) - 1

\* C33: a program whose recursive function never reaches a base case does
\* not run forever: after at most stack_size nested calls the run aborts
\* with the stack-overflow error
C33_RecursionAborts ==
    /\ [](NestedCalls(vm) <= stack_size)
    /\ (caller.phase = "running")
          ~> (/\ caller.phase = "raised"
              /\ caller.exc = "RuntimeError: Stack overflow"
              /\ NestedCalls(vm) \in 1..stack_size)

\* the run was aborted by the push of a CALL or PUSH on the full stack
C33_StackExhausted ==
    /\ caller.phase = "raised"
    /\ caller.exc = "RuntimeError: Stack overflow"
    /\ vm.sp = stack_size
    /\ caller.source = RecSource(MaxLocals)

\* ------------------------------------------------------------------------
\* SpecMem: a function called again and again from two nested for loops, at
\* call depth 1

MaxOuter == 23    \* iterations of each of the two loops

\* a * b calls of f, one after the other
MemSource(a, b) ==
    << <<"def", "f", "n">>, <<"return", "n">>, <<"end">>,
       <<"for", "i", "from", "1", "to", ToString(a)>>,
       <<"for", "j", "from", "1", "to", ToString(b)>>,
       <<"x", "=", "f", "j">>, <<"end">>, <<"end">>, <<"print", "x">> >>

InitMem ==
    /\ function_names = {}
    /\ counter = 0
    /\ vm = VirtualHardware_init
    /\ t_function_names = {}
    /\ t_counter = 0
    /\ hw = hardware_init
    /\ fs = FileSystem_init
    /\ hist = NoHistory
    /\ shell = NoShell
    /\ \E a \in {1, MaxOuter} : caller = [Idle EXCEPT !.source = MemSource(a, MaxOuter)]

NextMem == Compile \/ Execute \/ Step

SpecMem == InitMem /\ [][NextMem]_vars

\* C34: every address get_var_addr hands out is below memory_size, and a
\* compiled program whose call depth stays within the stack never fails for
\* lack of memory: here the calls are never nested, and the run neither
\* raises nor has the next free address go beyond the memory
C34_AddressesWithinMemory ==
    /\ NestedCalls(vm) <= 1
    /\ vm.next_mem_addr <= memory_size
    /\ caller.phase # "raised"

RECURSIVE SumTo(_)
SumTo(k) == IF k <= 0 THEN 0 ELSE k + SumTo(k - 1)

\* C35: a temp that is live across a call keeps its value: in
\* `return n - 0 + f n - 1` the ADD behind the call adds the n - 0 computed
\* before the CALL, also when f is the enclosing function, so that f k
\* prints k + (k - 1) + ... + 1
C35_TempLiveAcrossCall ==
    \A k \in 0..(MaxVal + 1) :
       (caller.phase = "returned" /\ caller.source = SumSource(k))
       => caller.output = <<ToString(SumTo(k))>>

\* C36: the upper bound of a for loop is evaluated once and stays fixed:
\* every JGT of `for i from 1 to 3` reads 3 from the bound temp, also when
\* the body generates 16 temps, and i is 4 behind the loop
C36_LoopBoundFixed ==
    \A m \in {1, num_registers} :
       (caller.source = BusySource(m) /\ caller.kind = "execute")
       => /\ (caller.phase = "running" /\ Len(Current(vm)) = 4 /\ Current(vm)[1] = "JGT")
                => eval_arg(vm, Current(vm)[3]).val = 3
          /\ caller.phase = "returned" => caller.output = <<"4">>

\* C37: in a run of compiled assembly control comes to the LABEL of a
\* function only by a CALL of that function, and to LABEL main only by the
\* JMP main: the instruction executed before it is that CALL or JMP, never
\* the last instruction of the function body in front of the label
C37_LabelsEnteredByCall ==
    [][(/\ caller.phase = "running"
        /\ caller'.phase = "running"
        /\ caller.source # <<>>
        /\ Len(Current(vm')) = 2
        /\ Current(vm')[1] = "LABEL"
        /\ Current(vm')[2] \in function_names \cup {"main"})
       => Current(vm) = IF Current(vm')[2] = "main"
                        THEN <<"JMP", "main">>
                        ELSE <<"CALL", Current(vm')[2]>>]_vars

\* the places of the LABEL lines of the assembly
LabelLines(assembly) ==
    {i \in 1..Len(assembly) : Len(assembly[i]) = 2 /\ assembly[i][1] = "LABEL"}

\* C38: no two LABEL instructions of the assembly of a source that compiles
\* carry the same name
C38_LabelsDistinct ==
    caller.phase = "compiled"
    => \A i \in LabelLines(caller.assembly), j \in LabelLines(caller.assembly) :
          caller.assembly[i][2] = caller.assembly[j][2] => i = j

\* ------------------------------------------------------------------------
\* SpecStack: exec of assembly files written by hand (with create) whose
\* PARAM and RET find the stack of the teaching variant's VM empty

\* a PARAM with nothing pushed
param_lines == << "('PARAM', 'x')", "('PRINT', 'x')" >>

\* a RET with no CALL pending
ret_lines == << "('RET', '1')" >>

\* a CALL without a PUSH: PARAM pops the return address, RET finds the stack empty
call_lines ==
    << "('JMP', 'main')", "('LABEL', 'f')", "('PARAM', 'n')", "('RET', 'n')",
       "('LABEL', 'main')", "('CALL', 'f')", "('PRINT', '_retval')" >>

StackTargets == {"param.a", "ret.a", "call.a"}

InitStack ==
    /\ function_names = {}
    /\ counter = 0
    /\ vm = VirtualHardware_init
    /\ t_function_names = {}
    /\ t_counter = 0
    /\ hw = hardware_init
    /\ hist = NoHistory
    /\ shell = NoShell
    /\ caller = Idle
    /\ fs = [FileSystem_init EXCEPT
               !.files = ("param.a" :> File(param_lines, 10000))
                         @@ ("ret.a" :> File(ret_lines, 10000))
                         @@ ("call.a" :> File(call_lines, 10000)) @@ @]

CmdExecStack ==
    /\ caller.phase # "running"
    /\ Len(hist.log) < MaxExecs
    /\ \E assembly_file \in StackTargets :
          /\ cmd_exec(assembly_file)
          /\ hist' = Logged(hist, "exec", assembly_file)
    /\ UNCHANGED <<function_names, counter, vm, t_function_names, t_counter, fs, shell>>

NextStack == CmdExecStack \/ T_Step

SpecStack == InitStack /\ [][NextStack]_vars

\* C39: the stack pointer of the teaching variant's VM is within 0..16 in
\* every state: a PARAM, RET or CALL on an empty stack aborts the execution
\* and does not take sp below zero
C39_StackPointerInRange == hw.sp \in 0..t_stack_size

---------------------------------------------------------------------------
(* The shell of src/pathos/pathos.py: FileSystem and Shell.  A directory   *)
(* is named by its path from the root, the sequence of the names on the    *)
(* way (<<>> is the root); a file by the path of its directory and its     *)
(* name.  A line of a file is the sequence of its words.                   *)

UserIds == {"root", "bob"}
Passwords == {"secret", "pw"}

\* f"/users/{userid}"
HomeDir(userid) == "/users/" \o userid

\* the path texts of the model, split at "/": [abs, parts]
PathTexts ==
    [text \in {"/", "/etc", "..", "tmp"} \cup {HomeDir(u) : u \in UserIds} |->
        CASE text = "/" -> [abs |-> TRUE, parts |-> <<>>]
          [] text = "/etc" -> [abs |-> TRUE, parts |-> <<"etc">>]
          [] text = ".." -> [abs |-> FALSE, parts |-> <<"..">>]
          [] text = "tmp" -> [abs |-> FALSE, parts |-> <<"tmp">>]
          [] OTHER -> [abs |-> TRUE,
                       parts |-> <<"users", CHOOSE u \in UserIds : HomeDir(u) = text>>]]

\* pathos.py:47-64  mkdir_abs: the directories on the way are created
mkdir_abs(f, parts) ==
    [f EXCEPT !.dirs = @ \cup {SubSeq(parts, 1, n) : n \in 1..Len(parts)}]

\* pathos.py:83-106  get_directory_by_path: <<path>>, or <<>> for None
RECURSIVE Walk(_, _, _)
Walk(f, current, parts) ==
    IF parts = <<>> THEN <<current>>
    ELSE IF Head(parts) = ".."
    THEN Walk(f, IF current = <<>> THEN current ELSE Front(current), Tail(parts))
    ELSE IF Append(current, Head(parts)) \in f.dirs
    THEN Walk(f, Append(current, Head(parts)), Tail(parts))
    ELSE <<>>

get_directory_by_path(f, text) ==
    LET p == PathTexts[text]
    IN Walk(f, IF p.abs THEN <<>> ELSE f.current_dir, p.parts)

\* the file `name` of directory dir
FilePath(dir, name) == Append(dir, name)
passwd_path == <<"etc", "passwd">>

\* pathos.py:24-39  FileSystem(): /etc, /users, /users/root and /etc/passwd
\* with the line of root
ShellFileSystem_init ==
    [dirs |-> {<<>>, <<"etc">>, <<"users">>, <<"users", "root">>},
     files |-> (passwd_path :> File(<< <<"root", "secret", HomeDir("root")>> >>, 10000)),
     current_dir |-> <<>>,
     next_disk_location |-> 10001]

\* pathos.py:128-137  _load_users: every line of /etc/passwd with three
\* words or more sets the registry entry of its userid
RECURSIVE LoadLines(_, _)
LoadLines(users, lines) ==
    IF lines = <<>> THEN users
    ELSE LET parts == Head(lines)
         IN LoadLines(IF Len(parts) >= 3
                      THEN (parts[1] :> [password |-> parts[2], home_dir |-> parts[3]])
                           @@ users
                      ELSE users,
                      Tail(lines))

load_users(sh, f) ==
    IF passwd_path \in DOMAIN f.files
    THEN [sh EXCEPT !.users = LoadLines(@, f.files[passwd_path].content)]
    ELSE sh

\* pathos.py:121-126  Shell()
Shell_init == load_users([users |-> <<>>, current_user |-> <<>>], ShellFileSystem_init)

\* ------------------------------------------------------------------------
\* SpecShell: Shell.run (pathos.py:374-423): logins at the login prompt and
\* commands at the command prompt, up to MaxCmds of them

MaxCmds == 4      \* logins and commands in a row

\* what the user types: file names, the lines of a new file, the line of
\* an edit, directory names and the paths of cd
ShellFileNames == {"passwd", "notes"}
bob_line == <<"bob", "pw", HomeDir("bob")>>
root_line == <<"root", "pw", HomeDir("root")>>
CreateContents == {<<>>, <<bob_line>>}
EditNumbers == {10, 20}
EditTexts == {<<>>, root_line}     \* <<>>: the line number alone (delete)
DirNames == {"tmp"}
CdPaths == {"/", "/etc", ".."}

InitShell ==
    /\ function_names = {}
    /\ counter = 0
    /\ vm = VirtualHardware_init
    /\ t_function_names = {}
    /\ t_counter = 0
    /\ hw = hardware_init
    /\ hist = NoHistory
    /\ caller = Idle
    /\ fs = ShellFileSystem_init
    /\ shell = Shell_init

\* the loop of run goes on: no exception left it, and the bound is not reached
Prompt(logged_in) ==
    /\ caller.exc = ""
    /\ (shell.current_user # <<>>) = logged_in
    /\ Len(hist.log) < MaxCmds
    /\ hist' = Logged(hist, "shell", <<>>)
    /\ UNCHANGED <<function_names, counter, vm, t_function_names, t_counter, hw>>

\* pathos.py:139-148, 380-388  login at the login prompt
Login ==
    /\ Prompt(FALSE)
    /\ \E userid \in UserIds, password \in Passwords :
          IF userid \in DOMAIN shell.users /\ shell.users[userid].password = password
          THEN LET home_dir == get_directory_by_path(fs, shell.users[userid].home_dir)
               IN /\ shell' = [shell EXCEPT !.current_user = <<userid>>]
                  /\ fs' = IF home_dir # <<>>
                           THEN [fs EXCEPT !.current_dir = home_dir[1]] ELSE fs
                  /\ caller' = Reply("login", <<userid, password>>,
                                     <<"Welcome, " \o userid \o "!">>, "")
          ELSE /\ caller' = Reply("login", <<userid, password>>, <<"Invalid login">>, "")
               /\ UNCHANGED <<fs, shell>>

\* pathos.py:339-346, 403-410  logout, and the reload of the users by run
CmdLogout ==
    /\ Prompt(TRUE)
    /\ fs' = [fs EXCEPT !.current_dir = <<>>]
    /\ shell' = load_users([shell EXCEPT !.current_user = <<>>], fs')
    /\ caller' = Reply("logout", <<>>, <<"LOGOUT:" \o shell.current_user[1]>>, "")

\* pathos.py:150-167  cd with no argument (the home directory) or a path
CmdCd ==
    /\ Prompt(TRUE)
    /\ \/ LET home_dir == get_directory_by_path(fs, shell.users[shell.current_user[1]].home_dir)
          IN IF home_dir # <<>>
             THEN /\ fs' = [fs EXCEPT !.current_dir = home_dir[1]]
                  /\ caller' = Reply("cd", <<>>, <<>>, "")
             ELSE /\ fs' = fs
                  /\ caller' = Reply("cd", <<>>, <<"No home directory">>, "")
       \/ \E target_path \in CdPaths :
             LET target_dir == get_directory_by_path(fs, target_path)
             IN IF target_dir # <<>>
                THEN /\ fs' = [fs EXCEPT !.current_dir = target_dir[1]]
                     /\ caller' = Reply("cd", <<target_path>>, <<>>, "")
                ELSE /\ fs' = fs
                     /\ caller' = Reply("cd", <<target_path>>,
                                        <<"Directory not found: " \o target_path>>, "")
    /\ shell' = shell

\* pathos.py:183-195
CmdMkdir ==
    /\ Prompt(TRUE)
    /\ \E dirname \in DirNames :
          IF Append(fs.current_dir, dirname) \in fs.dirs
          THEN /\ fs' = fs
               /\ caller' = Reply("mkdir", <<dirname>>,
                                  <<"Directory already exists: " \o dirname>>, "")
          ELSE /\ fs' = [fs EXCEPT !.dirs = @ \cup {Append(fs.current_dir, dirname)}]
               /\ caller' = Reply("mkdir", <<dirname>>,
                                  <<"Directory created: " \o dirname>>, "")
    /\ shell' = shell

\* pathos.py:197-207
CmdDel ==
    /\ Prompt(TRUE)
    /\ \E filename \in ShellFileNames :
          LET path == FilePath(fs.current_dir, filename)
          IN IF path \in DOMAIN fs.files
             THEN /\ fs' = [fs EXCEPT !.files =
                               [p \in DOMAIN fs.files \ {path} |-> fs.files[p]]]
                  /\ caller' = Reply("del", <<filename>>,
                                     <<"File deleted: " \o filename>>, "")
             ELSE /\ fs' = fs
                  /\ caller' = Reply("del", <<filename>>,
                                     <<"File not found: " \o filename>>, "")
    /\ shell' = shell

\* pathos.py:228-255  create: the lines typed up to the empty line; disk_loc
\* is the number random.randint gives get_next_disk_location
CmdCreate ==
    /\ Prompt(TRUE)
    /\ \E filename \in ShellFileNames, content \in CreateContents,
          disk_loc \in DiskLocations :
          LET path == FilePath(fs.current_dir, filename)
          IN IF path \in DOMAIN fs.files
             THEN /\ fs' = fs
                  /\ caller' = Reply("create", <<filename>>,
                                     <<"File already exists: " \o filename>>, "")
             ELSE /\ fs' = [fs EXCEPT !.files = (path :> File(content, disk_loc)) @@ @,
                                      !.next_disk_location = disk_loc + 1]
                  /\ caller' = Reply("create", <<filename>>,
                                     <<"File created: " \o filename>>, "")
    /\ shell' = shell

\* pathos.py:276-305  one line of the edit dialogue: the line number alone
\* deletes the line, the line number and a text replace or add it
edit_line(content, line_num, new_text) ==
    LET line_index == (line_num - 10) \div 10
    IN IF new_text = <<>>
       THEN IF line_index < Len(content)
            THEN SubSeq(content, 1, line_index) \o SubSeq(content, line_index + 2, Len(content))
            ELSE content
       ELSE IF line_index < Len(content)
       THEN [content EXCEPT ![line_index + 1] = new_text]
       ELSE [i \in 1..(line_index + 1) |->
               IF i <= Len(content) THEN content[i]
               ELSE IF i = line_index + 1 THEN new_text
               ELSE <<>>]

\* pathos.py:257-313  change with one edit line and the empty line
CmdChange ==
    /\ Prompt(TRUE)
    /\ \E filename \in ShellFileNames, line_num \in EditNumbers, new_text \in EditTexts :
          LET path == FilePath(fs.current_dir, filename)
          IN IF path \notin DOMAIN fs.files
             THEN /\ fs' = fs
                  /\ caller' = Reply("change", <<filename>>,
                                     <<"File not found: " \o filename>>, "")
             ELSE /\ fs' = [fs EXCEPT !.files[path].content =
                                         edit_line(@, line_num, new_text)]
                  /\ caller' = Reply("change", <<filename>>,
                                     <<"File " \o filename \o " updated">>, "")
    /\ shell' = shell

\* pathos.py:315-337  mkuser; files["passwd"] raises KeyError when
\* /etc/passwd is gone, behind the mkdir_abs of the home directory
CmdMkuser ==
    /\ Prompt(TRUE)
    /\ \E userid \in UserIds, password \in Passwords :
          IF userid \in DOMAIN shell.users
          THEN /\ caller' = Reply("mkuser", <<userid, password>>,
                                  <<"User already exists: " \o userid>>, "")
               /\ UNCHANGED <<fs, shell>>
          ELSE LET made == mkdir_abs(fs, PathTexts[HomeDir(userid)].parts)
               IN IF passwd_path \notin DOMAIN made.files
                  THEN /\ fs' = made
                       /\ shell' = shell
                       /\ caller' = Reply("mkuser", <<userid, password>>, <<>>, "KeyError")
                  ELSE /\ fs' = [made EXCEPT !.files[passwd_path].content =
                                    Append(@, <<userid, password, HomeDir(userid)>>)]
                       /\ shell' = [shell EXCEPT !.users =
                                      (userid :> [password |-> password,
                                                  home_dir |-> HomeDir(userid)]) @@ @]
                       /\ caller' = Reply("mkuser", <<userid, password>>,
                                          <<"User created: " \o userid>>, "")

NextShell ==
    \/ Login \/ CmdLogout \/ CmdCd \/ CmdMkdir \/ CmdDel
    \/ CmdCreate \/ CmdChange \/ CmdMkuser

SpecShell == InitShell /\ [][NextShell]_vars

\* the users /etc/passwd lists: what _load_users reads from it into an empty registry
Listed(f) ==
    IF passwd_path \in DOMAIN f.files
    THEN LoadLines(<<>>, f.files[passwd_path].content)
    ELSE <<>>

\* C40: in every state of the shell the userids of the registry are the
\* userids listed in /etc/passwd, each with the password of its passwd line
C40_RegistryMatchesPasswd ==
    /\ DOMAIN shell.users = DOMAIN Listed(fs)
    /\ \A u \in DOMAIN shell.users : shell.users[u].password = Listed(fs)[u].password

====
